---- MODULE Spec2Model ----
(***************************************************************************)
(* A model of the symbolic arithmetic engine:                              *)
(*   src/src/symbolic_engine/expression_eval.py  (Parser,                  *)
(*                                                ExpressionEvaluator)     *)
(*   src/src/symbolic_engine/operators.py        (Symbol, Add, ...)        *)
(*                                                                         *)
(* Strings are sequences of one-character strings.  A token is such a      *)
(* sequence.  Parser positions are 0-based as in the code, so the token    *)
(* under the cursor is toks[pos + 1].                                      *)
(***************************************************************************)
EXTENDS Integers, Sequences, FiniteSets, TLC

VARIABLES
    pc,         \* which call was made last: "idle", "tokenized", "parsed",
                \* "evaluated", "simplified", "substituted", "rendered",
                \* "substituted, rendered"
    text,       \* the string handed to tokenize / parse
    tokens,     \* Parser.tokens
    pos,        \* Parser.pos
    result,     \* the local `result` of Parser.parse: outcome of self.expression()
    parsed,     \* outcome of Parser.parse: returned tree or raised exception
    kwargs,     \* the bindings handed to evaluate
    evaluated,  \* outcome of ExpressionEvaluator.evaluate
    simplified, \* outcome of ExpressionEvaluator.simplify
    substitutions, \* the map handed to substitute
    substituted,   \* the tree ExpressionEvaluator.substitute returned
    rendered,   \* the string ExpressionEvaluator.to_string returned
    heap,       \* the objects built so far, with their fields
    root,       \* the reference of the tree parse returned
    out,        \* what the last evaluator call did: [err, ref]
    other,      \* the expression the parsed tree was compared with
    compared,   \* what the comparison gave: [eq, hashes]
    reparsed,   \* outcome of Parser.parse on the rendering of the parsed tree
    held,       \* the expression a caller holds and hands to the next call
    call,       \* the last call of that caller: [name, input and arguments]
    made,       \* outcome of that call: returned tree or raised exception
    calls,      \* how many evaluator calls that caller has chained
    threads,    \* the callers of one shared Parser: [pc, expression, result]
    agents,     \* CommunicationHub.agents: name -> queue of messages
    subscriptions,  \* CommunicationHub.subscriptions: topic -> list of names
    events,     \* how many events were published
    hubCall     \* the last call on the hub: [name, agent_name, topic]

engineVars == <<pc, text, tokens, pos, result, parsed, kwargs, evaluated,
                simplified, substitutions, substituted, rendered, heap, root, out>>

compareVars == <<other, compared>>

chainVars == <<held, call, made, calls>>

hubVars == <<agents, subscriptions, events, hubCall>>

\* what the calls on one Parser and one ExpressionEvaluator leave alone
beyondEngine == <<compareVars, reparsed, chainVars, threads, hubVars>>

vars == <<engineVars, beyondEngine>>

----------------------------------------------------------------------------
(* Bounds of the model.                                                    *)

\* longest enumerated string over ParseChars
MaxLen == 5

\* most operands of a directly constructed node
MaxOperands == 3

\* most evaluator calls one caller chains on the expression it holds
MaxCalls == 2

\* most messages created on the hub
MaxEvents == 2
\* longest enumerated string over LexChars
MaxLexLen == 4
\* largest magnitude of a numerator or denominator the model computes with
MaxMagnitude == 10000

----------------------------------------------------------------------------
(* Character classes of the token pattern (expression_eval.py:53) and of   *)
(* str.isdigit / str.isalpha (expression_eval.py:139-141), ASCII only.     *)

Digits == {"0", "1", "2", "3", "4", "5", "6", "7", "8", "9"}

Letters ==
    {"a", "b", "c", "d", "e", "f", "g", "h", "i", "j", "k", "l", "m",
     "n", "o", "p", "q", "r", "s", "t", "u", "v", "w", "x", "y", "z",
     "A", "B", "C", "D", "E", "F", "G", "H", "I", "J", "K", "L", "M",
     "N", "O", "P", "Q", "R", "S", "T", "U", "V", "W", "X", "Y", "Z"}

\* [a-zA-Z_]
IdentStart == Letters \cup {"_"}

\* [a-zA-Z0-9_]
IdentPart == Letters \cup Digits \cup {"_"}

\* [+\-*/^()]
OpChars == {"+", "-", "*", "/", "^", "(", ")"}

DigitVal(c) ==
    CASE c = "0" -> 0 [] c = "1" -> 1 [] c = "2" -> 2 [] c = "3" -> 3
      [] c = "4" -> 4 [] c = "5" -> 5 [] c = "6" -> 6 [] c = "7" -> 7
      [] c = "8" -> 8 [] c = "9" -> 9

----------------------------------------------------------------------------
(* Python numbers.  An int is num/1; a float is modelled as the exact      *)
(* rational num/den in lowest terms with den > 0.                          *)

RECURSIVE Gcd(_, _)
Gcd(a, b) == IF b = 0 THEN a ELSE Gcd(b, a % b)

Abs(n) == IF n < 0 THEN -n ELSE n

PyInt(n) == [type |-> "int", num |-> n, den |-> 1]

PyFloat(n, d) ==
    LET g == Gcd(Abs(n), d)
    IN  [type |-> "float", num |-> n \div g, den |-> d \div g]

RECURSIVE Pow10(_)
Pow10(k) == IF k = 0 THEN 1 ELSE 10 * Pow10(k - 1)

\* int(token) for a token of decimal digits
RECURSIVE ParseInt(_)
ParseInt(t) ==
    IF t = <<>> THEN 0
    ELSE 10 * ParseInt(SubSeq(t, 1, Len(t) - 1)) + DigitVal(t[Len(t)])

Contains(t, c) == \E i \in 1..Len(t) : t[i] = c

\* float(token) for a token digits "." digits
ParseFloat(t) ==
    LET k    == CHOOSE i \in 1..Len(t) : t[i] = "."
        frac == SubSeq(t, k + 1, Len(t))
    IN  PyFloat(ParseInt(SubSeq(t, 1, k - 1) \o frac), Pow10(Len(frac)))

\* str.isdigit()
isdigit(t) == t # <<>> /\ \A i \in 1..Len(t) : t[i] \in Digits

\* str.isalpha()
isalpha(t) == t # <<>> /\ \A i \in 1..Len(t) : t[i] \in Letters

----------------------------------------------------------------------------
(* Expression trees.  Every node is a record of one shape.  A "Number" is  *)
(* a bare Python int or float (the parser returns these for literals; they *)
(* are not SymbolicExpression objects).                                    *)

NoVal == PyInt(0)

NoTree == [kind |-> "None", name |-> <<>>, val |-> NoVal, args |-> <<>>]

Number(v) == [kind |-> "Number", name |-> <<>>, val |-> v, args |-> <<>>]

Symbol(name) == [kind |-> "Symbol", name |-> name, val |-> NoVal, args |-> <<>>]

Operator(kind, args) == [kind |-> kind, name |-> <<>>, val |-> NoVal, args |-> args]

Add(left, right) == Operator("Add", <<left, right>>)

Subtract(left, right) == Operator("Subtract", <<left, right>>)

Multiply(left, right) == Operator("Multiply", <<left, right>>)

Divide(left, right) == Operator("Divide", <<left, right>>)

Power(left, right) == Operator("Power", <<left, right>>)

OperatorKinds == {"Add", "Subtract", "Multiply", "Divide", "Power"}

----------------------------------------------------------------------------
(* Parser.tokenize (expression_eval.py:42-56)                              *)

\* expression.replace(' ', ''): only the space character is removed
RECURSIVE RemoveSpaces(_)
RemoveSpaces(s) ==
    IF s = <<>> THEN <<>>
    ELSE IF Head(s) = " " THEN RemoveSpaces(Tail(s))
    ELSE <<Head(s)>> \o RemoveSpaces(Tail(s))

\* the index after the longest run of characters of class C that starts at i
RunEnd(s, i, C) ==
    CHOOSE j \in i..(Len(s) + 1) :
        /\ \A k \in i..(j - 1) : s[k] \in C
        /\ (j = Len(s) + 1 \/ s[j] \notin C)

\* \d+\.?\d*  matched greedily at i, where s[i] is a digit
NumberEnd(s, i) ==
    LET j1 == RunEnd(s, i, Digits)
        j2 == IF j1 <= Len(s) /\ s[j1] = "." THEN j1 + 1 ELSE j1
    IN  RunEnd(s, j2, Digits)

\* re.findall(token_pattern, s): scan from i; a character at which no
\* alternative matches is passed over and the scan goes on after it
RECURSIVE FindAll(_, _)
FindAll(s, i) ==
    IF i > Len(s) THEN <<>>
    ELSE IF s[i] \in Digits
         THEN LET j == NumberEnd(s, i)
              IN  <<SubSeq(s, i, j - 1)>> \o FindAll(s, j)
    ELSE IF s[i] \in IdentStart
         THEN LET j == RunEnd(s, i, IdentPart)
              IN  <<SubSeq(s, i, j - 1)>> \o FindAll(s, j)
    ELSE IF s[i] \in OpChars
         THEN <<(<<s[i]>>)>> \o FindAll(s, i + 1)
    ELSE FindAll(s, i + 1)

tokenize(expression) == FindAll(RemoveSpaces(expression), 1)

----------------------------------------------------------------------------
(* Parser.expression / term / power / factor (expression_eval.py:74-144).  *)
(* Each returns [err, tree, pos]: err = "none" and the returned tree, or   *)
(* the exception raised; pos is self.pos when the call ends.               *)

Return(tree, p) == [err |-> "none", tree |-> tree, pos |-> p]

Raise(err, p) == [err |-> err, tree |-> NoTree, pos |-> p]

IndexError == "IndexError: list index out of range"

MismatchedParentheses == "ValueError: Mismatched parentheses"

InvalidToken == "ValueError: Invalid token"

UnexpectedToken == "ValueError: Unexpected token"

RECURSIVE expression(_, _)
RECURSIVE expression_loop(_, _, _)
RECURSIVE term(_, _)
RECURSIVE term_loop(_, _, _)
RECURSIVE power(_, _)
RECURSIVE factor(_, _)

\* factor that steps over whatever follows the enclosed expression
factor_NoCloseCheck(toks, p) ==
    IF p >= Len(toks) THEN Raise(IndexError, p)
    ELSE LET token == toks[p + 1] IN
         IF token = <<"(">>
         THEN LET e == expression(toks, p + 1) IN
              IF e.err # "none" THEN e ELSE Return(e.tree, e.pos + 1)
         ELSE IF isdigit(token) \/ Contains(token, ".")
              THEN Return(Number(IF Contains(token, ".")
                                 THEN ParseFloat(token)
                                 ELSE PyInt(ParseInt(token))), p + 1)
         ELSE IF isalpha(token) THEN Return(Symbol(token), p + 1)
         ELSE Raise(InvalidToken, p + 1)

factor(toks, p) ==
    IF p >= Len(toks) THEN Raise(IndexError, p)          \* line 131
    ELSE LET token == toks[p + 1] IN
         IF token = <<"(">>
         THEN LET e == expression(toks, p + 1) IN
              IF e.err # "none" THEN e
              ELSE IF e.pos >= Len(toks) \/ toks[e.pos + 1] # <<")">>
                   THEN Raise(MismatchedParentheses, e.pos)
              ELSE Return(e.tree, e.pos + 1)
         ELSE IF isdigit(token) \/ Contains(token, ".")
              THEN Return(Number(IF Contains(token, ".")
                                 THEN ParseFloat(token)
                                 ELSE PyInt(ParseInt(token))), p + 1)
         ELSE IF isalpha(token) THEN Return(Symbol(token), p + 1)
         ELSE Raise(InvalidToken, p + 1)

power(toks, p) ==
    LET left == factor(toks, p) IN
    IF left.err # "none" THEN left
    ELSE IF left.pos < Len(toks) /\ toks[left.pos + 1] = <<"^">>
         THEN LET right == power(toks, left.pos + 1) IN
              IF right.err # "none" THEN right
              ELSE Return(Power(left.tree, right.tree), right.pos)
    ELSE left

\* the while loop of term, entered with `left` built and self.pos = p
term_loop(toks, left, p) ==
    IF p < Len(toks) /\ toks[p + 1] \in {<<"*">>, <<"/">>}
    THEN LET op    == toks[p + 1]
             right == power(toks, p + 1)
         IN  IF right.err # "none" THEN right
             ELSE term_loop(toks,
                            IF op = <<"*">> THEN Multiply(left, right.tree)
                                            ELSE Divide(left, right.tree),
                            right.pos)
    ELSE Return(left, p)

term(toks, p) ==
    LET left == power(toks, p) IN
    IF left.err # "none" THEN left
    ELSE term_loop(toks, left.tree, left.pos)

\* the while loop of expression, entered with `left` built and self.pos = p
expression_loop(toks, left, p) ==
    IF p < Len(toks) /\ toks[p + 1] \in {<<"+">>, <<"-">>}
    THEN LET op    == toks[p + 1]
             right == term(toks, p + 1)
         IN  IF right.err # "none" THEN right
             ELSE expression_loop(toks,
                                  IF op = <<"+">> THEN Add(left, right.tree)
                                                  ELSE Subtract(left, right.tree),
                                  right.pos)
    ELSE Return(left, p)

\* expression that leaves the cursor where it started
expression_Rewind(toks, p) ==
    LET left == term(toks, p) IN
    IF left.err # "none" THEN left
    ELSE Return(expression_loop(toks, left.tree, left.pos).tree, p)

expression(toks, p) ==
    LET left == term(toks, p) IN
    IF left.err # "none" THEN left
    ELSE expression_loop(toks, left.tree, left.pos)

\* parse without the test for an unread token
parse_finish_NoTrailingCheck(toks, r) == r

\* Parser.parse, lines 70-72, given the outcome r of self.expression()
parse_finish(toks, r) ==
    IF r.err # "none" THEN r
    ELSE IF r.pos < Len(toks) THEN Raise(UnexpectedToken, r.pos)
    ELSE r

----------------------------------------------------------------------------
(* Numeric functions of the operators (operators.py:240-398).  A result    *)
(* the model cannot represent (an irrational or complex power, a magnitude *)
(* above MaxMagnitude) is reported as OutOfModel.                          *)

AttributeError == "AttributeError: object has no attribute 'evaluate'"

ZeroDivisionError == "ZeroDivisionError: Division by zero"

BindingValueError == "ValueError: Value for symbol must be numeric."

\* a keyword argument named as a positional parameter of the method called
TypeError == "TypeError: got multiple values for argument"

OutOfModel == "out of model"

Ok(v) == [err |-> "none", val |-> v]

Fail(err) == [err |-> err, val |-> NoVal]

\* the Python number n/d of the type the operands give
Make(isFloat, n, d) ==
    IF d = 0 \/ Abs(n) > MaxMagnitude * Abs(d) \/ Abs(d) > MaxMagnitude * MaxMagnitude
    THEN Fail(OutOfModel)
    ELSE LET sn == IF d < 0 THEN -n ELSE n
             g  == Gcd(Abs(n), Abs(d))
         IN  IF Abs(n) \div g > MaxMagnitude \/ Abs(d) \div g > MaxMagnitude
             THEN Fail(OutOfModel)
             ELSE Ok([type |-> IF isFloat THEN "float" ELSE "int",
                      num |-> sn \div g, den |-> Abs(d) \div g])

AnyFloat(a, b) == a.type = "float" \/ b.type = "float"

Opaque(a, b) == a.type \notin {"int", "float"} \/ b.type \notin {"int", "float"}

\* a + b
NumAdd(a, b) ==
    IF Opaque(a, b) THEN Fail(OutOfModel)
    ELSE Make(AnyFloat(a, b), a.num * b.den + b.num * a.den, a.den * b.den)

\* a - b   (Subtract._op, line 288)
NumSub(a, b) ==
    IF Opaque(a, b) THEN Fail(OutOfModel)
    ELSE Make(AnyFloat(a, b), a.num * b.den - b.num * a.den, a.den * b.den)

\* a * b
NumMul(a, b) ==
    IF Opaque(a, b) THEN Fail(OutOfModel)
    ELSE Make(AnyFloat(a, b), a.num * b.num, a.den * b.den)

\* Divide._op (lines 357-359): the zero test, then true division
NumDiv(numerator, denominator) ==
    IF Opaque(numerator, denominator) THEN Fail(OutOfModel)
    ELSE IF denominator.num = 0 THEN Fail(ZeroDivisionError)
    ELSE Make(TRUE, numerator.num * denominator.den, numerator.den * denominator.num)

\* acc * b^e for e >= 0, or MaxMagnitude + 1 as soon as the magnitude passes
\* the bound
RECURSIVE SatPowFrom(_, _, _)
SatPowFrom(acc, b, e) ==
    IF e = 0 THEN acc
    ELSE IF Abs(acc) * Abs(b) > MaxMagnitude THEN MaxMagnitude + 1
    ELSE SatPowFrom(acc * b, b, e - 1)

SatPow(b, e) ==
    IF e = 0 THEN 1
    ELSE IF b = 0 THEN 0
    ELSE IF b = 1 THEN 1
    ELSE IF b = -1 THEN (IF e % 2 = 0 THEN 1 ELSE -1)
    ELSE SatPowFrom(1, b, e)

\* Power._op (line 398): base ** exponent
NumPow(base, exponent) ==
    IF Opaque(base, exponent) THEN Fail(OutOfModel)
    ELSE IF exponent.den # 1
         THEN \* a fractional exponent
              IF base.num < 0 THEN Ok([type |-> "complex", num |-> 0, den |-> 1])
              ELSE IF base.num = 0
                   THEN IF exponent.num < 0 THEN Fail(ZeroDivisionError)
                        ELSE Make(TRUE, 0, 1)
              ELSE IF base.num = base.den THEN Make(TRUE, 1, 1)
              ELSE Fail(OutOfModel)
    ELSE IF exponent.num >= 0
         THEN LET n == SatPow(base.num, exponent.num)
                  d == SatPow(base.den, exponent.num)
              IN  IF Abs(n) > MaxMagnitude \/ d > MaxMagnitude
                  THEN Fail(OutOfModel)
                  ELSE Make(AnyFloat(base, exponent), n, d)
    ELSE IF base.num = 0 THEN Fail(ZeroDivisionError)
    ELSE LET n == SatPow(base.den, -exponent.num)
             d == SatPow(base.num, -exponent.num)
         IN  IF n > MaxMagnitude \/ Abs(d) > MaxMagnitude
             THEN Fail(OutOfModel)
             ELSE Make(TRUE, n, d)

\* Add._op (line 250): sum(values), which starts from the int 0
RECURSIVE Sum(_, _)
Sum(acc, values) ==
    IF values = <<>> THEN Ok(acc)
    ELSE LET r == NumAdd(acc, Head(values))
         IN  IF r.err # "none" THEN r ELSE Sum(r.val, Tail(values))

\* Multiply._op (lines 316-319): result = 1; result *= v for each v
RECURSIVE Product(_, _)
Product(acc, values) ==
    IF values = <<>> THEN Ok(acc)
    ELSE LET r == NumMul(acc, Head(values))
         IN  IF r.err # "none" THEN r ELSE Product(r.val, Tail(values))

\* self._op(*values) of the operator class `kind`
op(kind, values) ==
    CASE kind = "Add"      -> Sum(PyInt(0), values)
      [] kind = "Multiply" -> Product(PyInt(1), values)
      [] kind = "Subtract" -> NumSub(values[1], values[2])
      [] kind = "Divide"   -> NumDiv(values[1], values[2])
      [] kind = "Power"    -> NumPow(values[1], values[2])

----------------------------------------------------------------------------
(* evaluate (operators.py:106-123, 173-191; expression_eval.py:155-166).   *)
(* The outcome is [err, tree]: the returned number or tree, or the         *)
(* exception raised.                                                       *)

Returned(tree) == [err |-> "none", tree |-> tree]

Raised(err) == [err |-> err, tree |-> NoTree]

NotCalled == Raised("not called")

\* a str handed as the value of a keyword argument
PyStr == [type |-> "str", num |-> 0, den |-> 1]

Self == <<"s", "e", "l", "f">>

Expr == <<"e", "x", "p", "r">>

\* the positional parameters of ExpressionEvaluator.evaluate
ParameterNames == {Self, Expr}

\* isinstance(value, (int, float))
IsIntOrFloat(v) == v.type \in {"int", "float"}

\* Symbol.evaluate
SymbolEvaluate(node, kw) ==
    IF node.name \in DOMAIN kw
    THEN LET value == kw[node.name]
         IN  IF IsIntOrFloat(value) THEN Returned(Number(value))
             ELSE Raised(BindingValueError)
    ELSE Returned(node)

RECURSIVE evaluate(_, _)
RECURSIVE EvaluateArgs(_, _)

\* [arg.evaluate(**kwargs) for arg in self.args]: [err, args], the first
\* exception an operand raises ends the comprehension
EvaluateArgs(args, kw) ==
    IF args = <<>> THEN [err |-> "none", args |-> <<>>]
    ELSE LET first == evaluate(Head(args), kw)
         IN  IF first.err # "none" THEN [err |-> first.err, args |-> <<>>]
             ELSE LET rest == EvaluateArgs(Tail(args), kw)
                  IN  IF rest.err # "none" THEN rest
                      ELSE [err |-> "none", args |-> <<first.tree>> \o rest.args]

\* SymbolicOperator.evaluate
OperatorEvaluate(node, kw) ==
    LET ea == EvaluateArgs(node.args, kw) IN
    IF ea.err # "none" THEN Raised(ea.err)
    ELSE LET evaluated_args == ea.args IN
         IF \A i \in 1..Len(evaluated_args) : evaluated_args[i].kind = "Number"
         THEN LET r == op(node.kind,
                          [i \in 1..Len(evaluated_args) |-> evaluated_args[i].val])
              IN  IF r.err # "none" THEN Raised(r.err) ELSE Returned(Number(r.val))
         ELSE Returned(Operator(node.kind, evaluated_args))

\* expr.evaluate(**kwargs): a bare number has no such method; the methods
\* are declared evaluate(self, **kwargs), so the keyword self cannot be bound
evaluate(node, kw) ==
    CASE node.kind = "Number" -> Raised(AttributeError)
      [] Self \in DOMAIN kw   -> Raised(TypeError)
      [] node.kind = "Symbol" -> SymbolEvaluate(node, kw)
      [] OTHER                -> OperatorEvaluate(node, kw)

\* ExpressionEvaluator.evaluate(self, expr, **kwargs): a keyword named self or
\* expr collides with the positional parameter before the body runs
EvaluatorEvaluate(expr, kw) ==
    IF DOMAIN kw \cap ParameterNames # {} THEN Raised(TypeError)
    ELSE evaluate(expr, kw)

----------------------------------------------------------------------------
(* simplify (operators.py:125-132, 193-232; expression_eval.py:168-178).   *)

AttributeErrorSimplify == "AttributeError: object has no attribute 'simplify'"

\* isinstance(arg, numbers.Number) and arg == n
IsNumberEqual(arg, n) ==
    arg.kind = "Number" /\ arg.val.num = n * arg.val.den

\* [arg for arg in simplified_args if not (isinstance(arg, numbers.Number)
\* and arg == n)]
RECURSIVE Without(_, _)
Without(simplified_args, n) ==
    IF simplified_args = <<>> THEN <<>>
    ELSE IF IsNumberEqual(Head(simplified_args), n)
         THEN Without(Tail(simplified_args), n)
         ELSE <<Head(simplified_args)>> \o Without(Tail(simplified_args), n)

RECURSIVE simplify(_)
RECURSIVE SimplifyArgs(_)

\* [arg.simplify() for arg in self.args]: [err, args], the first exception
\* an operand raises ends the comprehension
SimplifyArgs(args) ==
    IF args = <<>> THEN [err |-> "none", args |-> <<>>]
    ELSE LET first == simplify(Head(args))
         IN  IF first.err # "none" THEN [err |-> first.err, args |-> <<>>]
             ELSE LET rest == SimplifyArgs(Tail(args))
                  IN  IF rest.err # "none" THEN rest
                      ELSE [err |-> "none", args |-> <<first.tree>> \o rest.args]

\* a simplify that keeps the first operand only
OperatorSimplify_FirstOperand(node) == simplify(node.args[1])

\* SymbolicOperator.simplify
OperatorSimplify(node) ==
    LET sa == SimplifyArgs(node.args) IN
    IF sa.err # "none" THEN Raised(sa.err)
    ELSE LET simplified_args == sa.args
             rebuilt == Returned(Operator(node.kind, simplified_args))
         IN
         CASE node.kind = "Add" ->
                LET non_zero == Without(simplified_args, 0) IN
                IF non_zero = <<>> THEN Returned(Number(PyInt(0)))
                ELSE IF Len(non_zero) = 1 THEN Returned(non_zero[1])
                ELSE Returned(Operator("Add", non_zero))
           [] node.kind = "Multiply" ->
                IF \E i \in 1..Len(simplified_args) : IsNumberEqual(simplified_args[i], 0)
                THEN Returned(Number(PyInt(0)))
                ELSE LET non_one == Without(simplified_args, 1) IN
                     IF non_one = <<>> THEN Returned(Number(PyInt(1)))
                     ELSE IF Len(non_one) = 1 THEN Returned(non_one[1])
                     ELSE Returned(Operator("Multiply", non_one))
           [] node.kind = "Power" ->
                LET base == simplified_args[1]
                    exp  == simplified_args[2]
                IN  IF IsNumberEqual(exp, 1) THEN Returned(base)
                    ELSE IF IsNumberEqual(exp, 0) THEN Returned(Number(PyInt(1)))
                    ELSE IF IsNumberEqual(base, 1) THEN Returned(Number(PyInt(1)))
                    ELSE rebuilt
           [] OTHER -> rebuilt

\* expr.simplify(): a bare number has no such method; Symbol.simplify
\* returns self
simplify(node) ==
    CASE node.kind = "Number" -> Raised(AttributeErrorSimplify)
      [] node.kind = "Symbol" -> Returned(node)
      [] OTHER                -> OperatorSimplify(node)

----------------------------------------------------------------------------
(* substitute (expression_eval.py:205-222).                                *)

RECURSIVE substitute(_, _)

\* substitute that replaces the root only and does not descend
substitute_RootOnly(expr, subs) ==
    IF expr.kind = "Symbol" /\ expr.name \in DOMAIN subs THEN subs[expr.name]
    ELSE expr

\* substitute that looks for a key again in the replacement it inserted
substitute_Searched(expr, subs) ==
    IF expr.kind = "Symbol" /\ expr.name \in DOMAIN subs
    THEN substitute_RootOnly(subs[expr.name], subs)
    ELSE IF expr.kind \in OperatorKinds
         THEN Operator(expr.kind,
                       [i \in 1..Len(expr.args) |-> substitute(expr.args[i], subs)])
    ELSE expr

substitute(expr, subs) ==
    IF expr.kind = "Symbol" /\ expr.name \in DOMAIN subs
    THEN subs[expr.name]
    ELSE IF expr.kind \in OperatorKinds
         THEN LET new_args == [i \in 1..Len(expr.args) |->
                                 substitute(expr.args[i], subs)]
              IN  Operator(expr.kind, new_args)
    ELSE expr

----------------------------------------------------------------------------
(* Rendering: __str__ (operators.py:134-141, 252-259, 290-298, 321-328,   *)
(* 361-369, 400-408) and str() of a bare int or float.                     *)

DigitChar(d) == CHOOSE c \in Digits : DigitVal(c) = d

\* the decimal digits of n >= 0
RECURSIVE IntDigits(_)
IntDigits(n) ==
    IF n < 10 THEN <<DigitChar(n)>>
    ELSE IntDigits(n \div 10) \o <<DigitChar(n % 10)>>

\* d has no prime factor but 2 and 5, so n/d has a finite decimal expansion
RECURSIVE IsDecimal(_)
IsDecimal(d) ==
    IF d = 1 THEN TRUE
    ELSE IF d % 2 = 0 THEN IsDecimal(d \div 2)
    ELSE IF d % 5 = 0 THEN IsDecimal(d \div 5)
    ELSE FALSE

\* the digits behind the decimal point of n/d, for 0 <= n < d, IsDecimal(d)
RECURSIVE FracDigits(_, _)
FracDigits(n, d) ==
    IF n = 0 THEN <<>>
    ELSE <<DigitChar((10 * n) \div d)>> \o FracDigits((10 * n) % d, d)

\* a rendering the model does not represent (a float shown with rounded
\* digits, a complex number)
UnknownRepr == <<"?">>

\* the least k >= from with n * 10^k >= d, for 0 < n
RECURSIVE Exponent10(_, _, _)
Exponent10(n, d, from) ==
    IF n * Pow10(from) >= d THEN from ELSE Exponent10(n, d, from + 1)

\* repr of the float n/d for 0 < n/d < 0.0001: float.__repr__ writes the
\* digits with an exponent of at least two digits, as in 1e-05 and 1.2e-05
ExponentRepr(n, d) ==
    LET k     == Exponent10(n, d, 5)
        m     == n * Pow10(k)
        frac  == FracDigits(m % d, d)
    IN  IntDigits(m \div d)
        \o (IF frac = <<>> THEN <<>> ELSE <<".">> \o frac)
        \o <<"e", "-">> \o (IF k < 10 THEN <<"0">> ELSE <<>>) \o IntDigits(k)

\* str(v) of an int or a float
StrNumber(v) ==
    LET sign == IF v.num < 0 THEN <<"-">> ELSE <<>>
        n    == Abs(v.num)
    IN  IF v.type = "int" THEN sign \o IntDigits(n)
        ELSE IF v.type # "float" \/ ~IsDecimal(v.den) THEN UnknownRepr
        ELSE IF n # 0 /\ n * 10000 < v.den THEN sign \o ExponentRepr(n, v.den)
        ELSE LET frac == FracDigits(n % v.den, v.den)
             IN  sign \o IntDigits(n \div v.den) \o <<".">>
                   \o (IF frac = <<>> THEN <<"0">> ELSE frac)

\* sep.join(parts)
RECURSIVE Join(_, _)
Join(sep, parts) ==
    IF parts = <<>> THEN <<>>
    ELSE IF Len(parts) = 1 THEN parts[1]
    ELSE parts[1] \o sep \o Join(sep, Tail(parts))

\* an operand of a join that is never parenthesised
JoinedOperand_Bare(arg, rendering) == rendering

\* f"({arg})" if isinstance(arg, SymbolicOperator) else str(arg)
JoinedOperand(arg, rendering) ==
    IF arg.kind \in OperatorKinds THEN <<"(">> \o rendering \o <<")">>
    ELSE rendering

RECURSIVE Str(_)
\* str(t)
Str(t) ==
    CASE t.kind = "Number" -> StrNumber(t.val)
      [] t.kind = "Symbol" -> t.name
      [] t.kind \in {"Add", "Multiply"} ->
           Join(IF t.kind = "Add" THEN <<" ", "+", " ">> ELSE <<" ", "*", " ">>,
                [i \in 1..Len(t.args) |-> JoinedOperand(t.args[i], Str(t.args[i]))])
      [] t.kind = "Subtract" ->
           <<"(">> \o Str(t.args[1]) \o <<")", " ", "-", " ", "(">>
             \o Str(t.args[2]) \o <<")">>
      [] t.kind = "Divide" ->
           <<"(">> \o Str(t.args[1]) \o <<")", " ", "/", " ", "(">>
             \o Str(t.args[2]) \o <<")">>
      [] t.kind = "Power" ->
           <<"(">> \o Str(t.args[1]) \o <<")", "^", "(">>
             \o Str(t.args[2]) \o <<")">>

----------------------------------------------------------------------------
(* The objects of the trees.  A Symbol or an operator is an object of the  *)
(* heap, named by its index; its args list holds references; a bare number *)
(* is a value and not an object.  evaluate, simplify and substitute are    *)
(* given here by their effect on the heap: what they read, what they       *)
(* allocate, what they would assign.                                       *)

NumRef(v) == [tag |-> "num", val |-> v, id |-> 0]

ObjRef(i) == [tag |-> "obj", val |-> NoVal, id |-> i]

\* the fields of an object: its class, Symbol.name, SymbolicOperator.args
Object(kind, name, args) == [kind |-> kind, name |-> name, args |-> args]

\* a constructor call: a new object behind the existing ones
Alloc(h, obj) == [heap |-> Append(h, obj), ref |-> ObjRef(Len(h) + 1)]

RECURSIVE Load(_, _)
RECURSIVE LoadArgs(_, _)

\* the objects of the trees `args`, built one after the other: [heap, refs]
LoadArgs(h, args) ==
    IF args = <<>> THEN [heap |-> h, refs |-> <<>>]
    ELSE LET first == Load(h, Head(args))
             rest  == LoadArgs(first.heap, Tail(args))
         IN  [heap |-> rest.heap, refs |-> <<first.ref>> \o rest.refs]

\* the objects of a tree as its constructors build them, operands first
Load(h, tree) ==
    CASE tree.kind = "Number" -> [heap |-> h, ref |-> NumRef(tree.val)]
      [] tree.kind = "Symbol" -> Alloc(h, Object("Symbol", tree.name, <<>>))
      [] OTHER ->
           LET la == LoadArgs(h, tree.args)
           IN  Alloc(la.heap, Object(tree.kind, <<>>, la.refs))

\* the tree a reference stands for
RECURSIVE Deref(_, _)
Deref(h, ref) ==
    IF ref.tag = "num" THEN Number(ref.val)
    ELSE LET obj == h[ref.id] IN
         IF obj.kind = "Symbol" THEN Symbol(obj.name)
         ELSE Operator(obj.kind, [i \in 1..Len(obj.args) |-> Deref(h, obj.args[i])])

HReturn(h, ref) == [heap |-> h, err |-> "none", ref |-> ref]

HRaise(h, err) == [heap |-> h, err |-> err, ref |-> NumRef(NoVal)]

\* the rebuilt node assigned to the operands list of the node itself
Rebuild_InPlace(h, self, new_args) ==
    [heap |-> [h EXCEPT ![self.id].args = new_args], ref |-> self]

\* self.__class__(*new_args): a new object of the class of self
Rebuild(h, self, new_args) ==
    Alloc(h, Object(h[self.id].kind, <<>>, new_args))

AllNumbers(refs) == \A i \in 1..Len(refs) : refs[i].tag = "num"

RECURSIVE HeapEvaluate(_, _, _)
RECURSIVE HeapEvaluateArgs(_, _, _)

\* [arg.evaluate(**kwargs) for arg in self.args]: [heap, err, refs]
HeapEvaluateArgs(h, args, kw) ==
    IF args = <<>> THEN [heap |-> h, err |-> "none", refs |-> <<>>]
    ELSE LET first == HeapEvaluate(h, Head(args), kw)
         IN  IF first.err # "none"
             THEN [heap |-> first.heap, err |-> first.err, refs |-> <<>>]
             ELSE LET rest == HeapEvaluateArgs(first.heap, Tail(args), kw)
                  IN  [heap |-> rest.heap, err |-> rest.err,
                       refs |-> IF rest.err # "none" THEN <<>>
                                ELSE <<first.ref>> \o rest.refs]

\* expr.evaluate(**kwargs) (operators.py:106-123, 173-191)
HeapEvaluate(h, ref, kw) ==
    IF ref.tag = "num" THEN HRaise(h, AttributeError)
    ELSE IF Self \in DOMAIN kw THEN HRaise(h, TypeError)
    ELSE LET self == h[ref.id] IN
    IF self.kind = "Symbol"
    THEN IF self.name \in DOMAIN kw
         THEN IF IsIntOrFloat(kw[self.name]) THEN HReturn(h, NumRef(kw[self.name]))
              ELSE HRaise(h, BindingValueError)
         ELSE HReturn(h, ref)
    ELSE LET ea == HeapEvaluateArgs(h, self.args, kw) IN
         IF ea.err # "none" THEN HRaise(ea.heap, ea.err)
         ELSE IF AllNumbers(ea.refs)
              THEN LET r == op(self.kind, [i \in 1..Len(ea.refs) |-> ea.refs[i].val])
                   IN  IF r.err # "none" THEN HRaise(ea.heap, r.err)
                       ELSE HReturn(ea.heap, NumRef(r.val))
         ELSE LET new == Rebuild(ea.heap, ref, ea.refs)
              IN  HReturn(new.heap, new.ref)

\* ExpressionEvaluator.evaluate(self, expr, **kwargs)
HeapEvaluatorEvaluate(h, ref, kw) ==
    IF DOMAIN kw \cap ParameterNames # {} THEN HRaise(h, TypeError)
    ELSE HeapEvaluate(h, ref, kw)

\* isinstance(arg, numbers.Number) and arg == n, of a reference
IsNumberRefEqual(ref, n) == ref.tag = "num" /\ ref.val.num = n * ref.val.den

RECURSIVE RefsWithout(_, _)
RefsWithout(refs, n) ==
    IF refs = <<>> THEN <<>>
    ELSE IF IsNumberRefEqual(Head(refs), n) THEN RefsWithout(Tail(refs), n)
    ELSE <<Head(refs)>> \o RefsWithout(Tail(refs), n)

RECURSIVE HeapSimplify(_, _)
RECURSIVE HeapSimplifyArgs(_, _)

\* [arg.simplify() for arg in self.args]: [heap, err, refs]
HeapSimplifyArgs(h, args) ==
    IF args = <<>> THEN [heap |-> h, err |-> "none", refs |-> <<>>]
    ELSE LET first == HeapSimplify(h, Head(args))
         IN  IF first.err # "none"
             THEN [heap |-> first.heap, err |-> first.err, refs |-> <<>>]
             ELSE LET rest == HeapSimplifyArgs(first.heap, Tail(args))
                  IN  [heap |-> rest.heap, err |-> rest.err,
                       refs |-> IF rest.err # "none" THEN <<>>
                                ELSE <<first.ref>> \o rest.refs]

\* expr.simplify() (operators.py:125-132, 193-232)
HeapSimplify(h, ref) ==
    IF ref.tag = "num" THEN HRaise(h, AttributeErrorSimplify)
    ELSE LET self == h[ref.id] IN
    IF self.kind = "Symbol" THEN HReturn(h, ref)
    ELSE LET sa == HeapSimplifyArgs(h, self.args) IN
         IF sa.err # "none" THEN HRaise(sa.heap, sa.err)
         ELSE LET simplified_args == sa.refs
                  rebuilt == LET new == Rebuild(sa.heap, ref, simplified_args)
                             IN  HReturn(new.heap, new.ref)
              IN
              CASE self.kind = "Add" ->
                     LET non_zero == RefsWithout(simplified_args, 0) IN
                     IF non_zero = <<>> THEN HReturn(sa.heap, NumRef(PyInt(0)))
                     ELSE IF Len(non_zero) = 1 THEN HReturn(sa.heap, non_zero[1])
                     ELSE LET new == Alloc(sa.heap, Object("Add", <<>>, non_zero))
                          IN  HReturn(new.heap, new.ref)
                [] self.kind = "Multiply" ->
                     IF \E i \in 1..Len(simplified_args) :
                          IsNumberRefEqual(simplified_args[i], 0)
                     THEN HReturn(sa.heap, NumRef(PyInt(0)))
                     ELSE LET non_one == RefsWithout(simplified_args, 1) IN
                          IF non_one = <<>> THEN HReturn(sa.heap, NumRef(PyInt(1)))
                          ELSE IF Len(non_one) = 1 THEN HReturn(sa.heap, non_one[1])
                          ELSE LET new == Alloc(sa.heap, Object("Multiply", <<>>, non_one))
                               IN  HReturn(new.heap, new.ref)
                [] self.kind = "Power" ->
                     LET base == simplified_args[1]
                         exp  == simplified_args[2]
                     IN  IF IsNumberRefEqual(exp, 1) THEN HReturn(sa.heap, base)
                         ELSE IF IsNumberRefEqual(exp, 0) THEN HReturn(sa.heap, NumRef(PyInt(1)))
                         ELSE IF IsNumberRefEqual(base, 1) THEN HReturn(sa.heap, NumRef(PyInt(1)))
                         ELSE rebuilt
                [] OTHER -> rebuilt

RECURSIVE HeapSubstitute(_, _, _)
RECURSIVE HeapSubstituteArgs(_, _, _)

\* [self.substitute(arg, substitutions) for arg in expr.args]: [heap, refs]
HeapSubstituteArgs(h, args, subs) ==
    IF args = <<>> THEN [heap |-> h, refs |-> <<>>]
    ELSE LET first == HeapSubstitute(h, Head(args), subs)
             rest  == HeapSubstituteArgs(first.heap, Tail(args), subs)
         IN  [heap |-> rest.heap, refs |-> <<first.ref>> \o rest.refs]

\* ExpressionEvaluator.substitute (expression_eval.py:205-222); subs maps a
\* name to the reference of its replacement
HeapSubstitute(h, ref, subs) ==
    IF ref.tag = "num" THEN HReturn(h, ref)
    ELSE LET expr == h[ref.id] IN
    IF expr.kind = "Symbol"
    THEN IF expr.name \in DOMAIN subs THEN HReturn(h, subs[expr.name])
         ELSE HReturn(h, ref)
    ELSE LET na  == HeapSubstituteArgs(h, expr.args, subs)
             new == Rebuild(na.heap, ref, na.refs)
         IN  HReturn(new.heap, new.ref)

----------------------------------------------------------------------------
(* Comparison of expressions (operators.py:70-89).  A literal is a bare    *)
(* int or float, so a comparison with a literal on the left is Python's    *)
(* comparison of numbers.                                                  *)

\* a == b
Equals(a, b) ==
    IF a.kind = "Number" /\ b.kind = "Number"
    THEN a.val.num * b.val.den = b.val.num * a.val.den
    ELSE IF a.kind = "Number" \/ b.kind = "Number"
    THEN FALSE                      \* isinstance(other, SymbolicExpression)
    ELSE Str(a) = Str(b)

\* hash(a): equal numbers have equal hashes, an expression has the hash of
\* its rendering
Hash(a) ==
    IF a.kind = "Number"
    THEN [of |-> "number", value |-> <<a.val.num, a.val.den>>]
    ELSE [of |-> "str", value |-> Str(a)]

----------------------------------------------------------------------------
(* Direct construction of operator nodes (operators.py:149-158, 267-275,   *)
(* 336-344, 377-385).                                                      *)

NoArgument == "ValueError: Operator must have at least one argument."

\* Subtract, Divide and Power declare __init__ with two positional parameters
ArgumentCount == "TypeError: __init__() positional arguments"

\* a constructor that takes any operands
Construct_Unchecked(kind, args) == Returned(Operator(kind, args))

\* kind(*args)
Construct(kind, args) ==
    IF kind \in {"Subtract", "Divide", "Power"} /\ Len(args) # 2
    THEN Raised(ArgumentCount)
    ELSE IF args = <<>> THEN Raised(NoArgument)
    ELSE Returned(Operator(kind, args))

----------------------------------------------------------------------------
(* The inputs.                                                             *)

Strings(Chars, n) == UNION {[1..k -> Chars] : k \in 0..n}

ParseChars == {"2", "x", "+", "-", "*", "/", "^", "(", ")"}

LexChars == {"1", "x", "_", ".", "+", "(", " ", "$"}

\* the expressions the documentation and the design use as examples
Examples ==
    { <<"x", " ", "+", " ", "2", " ", "*", " ", "y">>,
      <<"2", "^", "3", "^", "2">>,
      <<"(", "x", " ", "+", " ", "2", ")", " ", "*", " ", "y">>,
      <<"1", "/", "x">>,
      <<"x", " ", "+", " ", "y">>,
      <<"x", "/", "y">>,
      <<"1", " ", "2">>,
      <<"x", " ", "y">>,
      <<"1", " ", "+">>,
      <<"x", "1">>,
      <<"_", "a">>,
      <<"e", "x", "p", "r">>,
      <<"0", " ", "+", " ", "x">>,
      <<"x", " ", "*", " ", "1">>,
      <<"x", "^", "1">>,
      <<"x", "^", "0">>,
      <<"x", " ", "-", " ", "0">>,
      <<"0", "/", "x">>,
      <<"x", "/", "1">>,
      <<"x", "*", "2", "+", "y">>,
      <<"(", "x", "+", "y", ")", "*", "x", "-", "y">>,
      <<"t", "o", "t", "a", "l", "_", "2">>,
      <<"x", "^", "y">>,
      <<"0", ".", "0", "0", "0", "0", "1">> }

LexInputs == Strings(LexChars, MaxLexLen) \cup Examples

ParseInputs == Strings(ParseChars, MaxLen) \cup LexInputs

NoResult == Raise("not called", 0)

Names == {<<"x">>, <<"y">>, Expr}

Values == {PyInt(0), PyInt(3), PyInt(4), PyStr}

\* bindings of a base and an exponent: 0 and -1, -8 and 0.5
PowerBindings ==
    { [n \in {<<"x">>, <<"y">>} |-> IF n = <<"x">> THEN PyInt(0) ELSE PyInt(-1)],
      [n \in {<<"x">>, <<"y">>} |->
          IF n = <<"x">> THEN PyInt(-8) ELSE PyFloat(1, 2)] }

\* the keyword arguments of evaluate: some names bound to values
Bindings == UNION {[D -> Values] : D \in SUBSET Names} \cup PowerBindings

Z == <<"z">>

\* the expression objects a caller of substitute holds as replacements
PoolTrees ==
    << Symbol(<<"x">>), Symbol(<<"y">>), Symbol(Z),
       Add(Symbol(<<"y">>), Number(PyInt(1))) >>

PoolLoaded == LoadArgs(<<>>, PoolTrees)

\* the replacements: the objects of the pool and a bare number
SubstitutionValues == {PoolTrees[i] : i \in 1..Len(PoolTrees)} \cup {Number(PyInt(5))}

\* the reference of a replacement
RefOf(v) ==
    IF v.kind = "Number" THEN NumRef(v.val)
    ELSE PoolLoaded.refs[CHOOSE i \in 1..Len(PoolTrees) : PoolTrees[i] = v]

\* the maps handed to substitute: some of the names x, y mapped to replacements
Substitutions ==
    UNION {[D -> SubstitutionValues] : D \in SUBSET {<<"x">>, <<"y">>}}

\* the expressions a parsed tree is compared with
Others ==
    { Number(PyInt(1)), Number(PyFloat(1, 1)), Number(PyInt(2)),
      Symbol(<<"x">>), Symbol(<<"y">>),
      Add(Symbol(<<"x">>), Symbol(<<"y">>)),
      Add(Symbol(<<"y">>), Symbol(<<"x">>)),
      Multiply(Symbol(<<"x">>), Number(PyInt(2))),
      Operator("Add", <<Symbol(<<"x">>)>>) }

NotCompared == [eq |-> FALSE, hashes |-> <<>>]

NoCall == [name |-> "none", input |-> NoTree, arg |-> <<>>]

Callers == {1, 2}

Idle == [pc |-> "idle", expression |-> <<>>, result |-> NoResult]

NoHubCall == [name |-> "none", agent_name |-> "", topic |-> ""]

AgentNames == {"a", "b"}

Topics == {"t", "u"}

\* the sender of a message: any string, registered or not
Senders == {"s"}

\* Message.receiver of a broadcast
None == "None"

\* the operands of a directly constructed node
Operands ==
    { Symbol(<<"x">>), Symbol(<<"y">>), Number(PyInt(0)),
      Operator("Add", <<Symbol(<<"x">>)>>) }

OperandLists == UNION {[1..k -> Operands] : k \in 0..MaxOperands}

\* the bindings of a chained evaluate
ChainBindings ==
    { <<>>,
      [n \in {<<"x">>} |-> PyInt(3)],
      [n \in {<<"y">>} |-> PyInt(4)],
      [n \in {<<"x">>, <<"y">>} |-> IF n = <<"x">> THEN PyInt(3) ELSE PyInt(4)] }

\* the maps of a chained substitute
ChainSubstitutions ==
    { [n \in {<<"x">>} |-> Symbol(<<"y">>)],
      [n \in {<<"x">>} |-> Number(PyInt(5))],
      [n \in {<<"x">>, <<"y">>} |->
          IF n = <<"x">> THEN Symbol(<<"y">>) ELSE Symbol(<<"x">>)] }

\* the expressions of the requests; the route answers an empty one itself
\* (api_server.py:53-54)
SharedInputs ==
    { <<"x">>, <<"2", "+", "x">>, <<"(", "x", ")", "*", "y">>,
      <<"x", "^">>, <<"x", " ", "y">>, <<"2">> }

NoOutcome == [err |-> "not called", ref |-> NumRef(NoVal)]

----------------------------------------------------------------------------
(* The state machine: calls made on one Parser and one                     *)
(* ExpressionEvaluator.                                                    *)

Init ==
    /\ pc = "idle"
    /\ text = <<>>
    /\ tokens = <<>>                    \* Parser.__init__
    /\ pos = 0
    /\ result = NoResult
    /\ parsed = NoResult
    /\ kwargs = <<>>
    /\ evaluated = NotCalled
    /\ simplified = NotCalled
    /\ substitutions = <<>>
    /\ substituted = NoTree
    /\ rendered = <<>>
    /\ heap = PoolLoaded.heap
    /\ root = NumRef(NoVal)
    /\ out = NoOutcome
    /\ other = NoTree
    /\ compared = NotCompared
    /\ reparsed = NoResult
    /\ held = NoTree
    /\ call = NoCall
    /\ made = NotCalled
    /\ calls = 0
    /\ threads = [c \in Callers |-> Idle]
    /\ agents = <<>>                    \* CommunicationHub.__init__
    /\ subscriptions = <<>>
    /\ events = 0
    /\ hubCall = NoHubCall

\* parser.tokenize(s)
Tokenize(s) ==
    /\ pc = "idle"
    /\ pc' = "tokenized"
    /\ text' = s
    /\ tokens' = tokenize(s)
    /\ pos' = 0
    /\ UNCHANGED <<result, parsed, kwargs, evaluated, simplified, substitutions,
                   substituted, rendered, heap, root, out>>
    /\ UNCHANGED beyondEngine

\* parser.parse(s); the nodes of a returned tree are new objects
Parse(s) ==
    /\ pc = "idle"
    /\ pc' = "parsed"
    /\ text' = s
    /\ tokens' = tokenize(s)
    /\ result' = expression(tokens', 0)
    /\ parsed' = parse_finish(tokens', result')
    /\ pos' = parsed'.pos
    /\ IF parsed'.err = "none"
       THEN LET built == Load(heap, parsed'.tree)
            IN  heap' = built.heap /\ root' = built.ref
       ELSE UNCHANGED <<heap, root>>
    /\ UNCHANGED <<kwargs, evaluated, simplified, substitutions, substituted,
                   rendered, out>>
    /\ UNCHANGED beyondEngine

\* evaluator.evaluate(tree, **kw) on the tree parse returned
Evaluate(kw) ==
    /\ pc = "parsed"
    /\ parsed.err = "none"
    /\ LET r == EvaluatorEvaluate(parsed.tree, kw)
           h == HeapEvaluatorEvaluate(heap, root, kw)
       IN  /\ r.err # OutOfModel
           /\ evaluated' = r
           /\ heap' = h.heap
           /\ out' = [err |-> h.err, ref |-> h.ref]
    /\ kwargs' = kw
    /\ pc' = "evaluated"
    /\ UNCHANGED <<text, tokens, pos, result, parsed, simplified, substitutions,
                   substituted, rendered, root>>
    /\ UNCHANGED beyondEngine

\* evaluator.simplify(tree) on the tree parse returned
Simplify ==
    /\ pc = "parsed"
    /\ parsed.err = "none"
    /\ simplified' = simplify(parsed.tree)
    /\ LET h == HeapSimplify(heap, root)
       IN  /\ heap' = h.heap
           /\ out' = [err |-> h.err, ref |-> h.ref]
    /\ pc' = "simplified"
    /\ UNCHANGED <<text, tokens, pos, result, parsed, kwargs, evaluated,
                   substitutions, substituted, rendered, root>>
    /\ UNCHANGED beyondEngine

\* evaluator.substitute(tree, subs) on the tree parse returned
Substitute(subs) ==
    /\ pc = "parsed"
    /\ parsed.err = "none"
    /\ substitutions' = subs
    /\ substituted' = substitute(parsed.tree, subs)
    /\ LET h == HeapSubstitute(heap, root, [n \in DOMAIN subs |-> RefOf(subs[n])])
       IN  /\ heap' = h.heap
           /\ out' = [err |-> h.err, ref |-> h.ref]
    /\ pc' = "substituted"
    /\ UNCHANGED <<text, tokens, pos, result, parsed, kwargs, evaluated,
                   simplified, rendered, root>>
    /\ UNCHANGED beyondEngine

\* evaluator.to_string(e) on the tree parse returned, or on the tree
\* substitute returned
to_string ==
    /\ \/ /\ pc = "parsed"
          /\ parsed.err = "none"
          /\ rendered' = Str(parsed.tree)
          /\ pc' = "rendered"
       \/ /\ pc = "substituted"
          /\ rendered' = Str(substituted)
          /\ pc' = "substituted, rendered"
    /\ UNCHANGED <<text, tokens, pos, result, parsed, kwargs, evaluated,
                   simplified, substitutions, substituted, heap, root, out>>
    /\ UNCHANGED beyondEngine

\* tree == o on the tree parse returned, and the hashes of the two
Compare(o) ==
    /\ pc = "parsed"
    /\ parsed.err = "none"
    /\ other' = o
    /\ compared' = [eq |-> Equals(parsed.tree, o),
                    hashes |-> <<Hash(parsed.tree), Hash(o)>>]
    /\ pc' = "compared"
    /\ UNCHANGED <<text, tokens, pos, result, parsed, kwargs, evaluated,
                   simplified, substitutions, substituted, rendered, heap,
                   root, out>>
    /\ UNCHANGED <<reparsed, chainVars, threads, hubVars>>

CompareCall == pc = "parsed" /\ \E o \in Others : Compare(o)

\* parser.parse(rendering) on the string to_string returned for the parsed
\* tree, by the same Parser
Reparse ==
    /\ pc = "rendered"
    /\ pc' = "reparsed"
    /\ tokens' = tokenize(rendered)
    /\ result' = expression(tokens', 0)
    /\ reparsed' = parse_finish(tokens', result')
    /\ pos' = reparsed'.pos
    /\ IF reparsed'.err = "none"
       THEN heap' = Load(heap, reparsed'.tree).heap
       ELSE UNCHANGED heap
    /\ UNCHANGED <<text, parsed, kwargs, evaluated, simplified, substitutions,
                   substituted, rendered, root, out>>
    /\ UNCHANGED <<compareVars, chainVars, threads, hubVars>>

\* what a caller holds after a call: the tree returned, or what it held
Holding(outcome) ==
    /\ made' = outcome
    /\ IF outcome.err = "none"
       THEN held' = outcome.tree /\ pc' = "held"
       ELSE UNCHANGED held /\ pc' = "failed"

\* e = kind(*args)
ConstructNode(kind, args) ==
    /\ pc = "idle"
    /\ call' = [name |-> "construct", input |-> NoTree, arg |-> <<kind, args>>]
    /\ Holding(Construct(kind, args))
    /\ UNCHANGED calls
    /\ UNCHANGED <<text, tokens, pos, result, parsed, kwargs, evaluated,
                   simplified, substitutions, substituted, rendered, heap,
                   root, out>>
    /\ UNCHANGED <<compareVars, reparsed, threads, hubVars>>

\* the caller keeps the tree parse returned
Hold ==
    /\ pc = "parsed"
    /\ parsed.err = "none"
    /\ call' = [name |-> "parse", input |-> NoTree, arg |-> text]
    /\ Holding(Returned(parsed.tree))
    /\ UNCHANGED calls
    /\ UNCHANGED <<text, tokens, pos, result, parsed, kwargs, evaluated,
                   simplified, substitutions, substituted, rendered, heap,
                   root, out>>
    /\ UNCHANGED <<compareVars, reparsed, threads, hubVars>>

\* e = evaluator.evaluate(e, **kw)
EvaluateHeld(kw) ==
    /\ pc = "held"
    /\ calls < MaxCalls
    /\ EvaluatorEvaluate(held, kw).err # OutOfModel
    /\ call' = [name |-> "evaluate", input |-> held, arg |-> kw]
    /\ Holding(EvaluatorEvaluate(held, kw))
    /\ calls' = calls + 1
    /\ UNCHANGED <<text, tokens, pos, result, parsed, kwargs, evaluated,
                   simplified, substitutions, substituted, rendered, heap,
                   root, out>>
    /\ UNCHANGED <<compareVars, reparsed, threads, hubVars>>

\* e = evaluator.simplify(e)
SimplifyHeld ==
    /\ pc = "held"
    /\ calls < MaxCalls
    /\ call' = [name |-> "simplify", input |-> held, arg |-> <<>>]
    /\ Holding(simplify(held))
    /\ calls' = calls + 1
    /\ UNCHANGED <<text, tokens, pos, result, parsed, kwargs, evaluated,
                   simplified, substitutions, substituted, rendered, heap,
                   root, out>>
    /\ UNCHANGED <<compareVars, reparsed, threads, hubVars>>

\* e = evaluator.substitute(e, subs)
SubstituteHeld(subs) ==
    /\ pc = "held"
    /\ calls < MaxCalls
    /\ call' = [name |-> "substitute", input |-> held, arg |-> subs]
    /\ Holding(Returned(substitute(held, subs)))
    /\ calls' = calls + 1
    /\ UNCHANGED <<text, tokens, pos, result, parsed, kwargs, evaluated,
                   simplified, substitutions, substituted, rendered, heap,
                   root, out>>
    /\ UNCHANGED <<compareVars, reparsed, threads, hubVars>>

ConstructCall ==
    pc = "idle" /\ \E kind \in OperatorKinds : \E args \in OperandLists :
                        ConstructNode(kind, args)

EvaluateHeldCall == pc = "held" /\ \E kw \in ChainBindings : EvaluateHeld(kw)

SubstituteHeldCall ==
    pc = "held" /\ \E subs \in ChainSubstitutions : SubstituteHeld(subs)

EvaluateCall == pc = "parsed" /\ \E kw \in Bindings : Evaluate(kw)

TokenizeCall == pc = "idle" /\ \E s \in LexInputs : Tokenize(s)

ParseCall == pc = "idle" /\ \E s \in ParseInputs : Parse(s)

SubstituteCall == pc = "parsed" /\ \E subs \in Substitutions : Substitute(subs)

Next ==
    \/ TokenizeCall
    \/ ParseCall
    \/ EvaluateCall
    \/ Simplify
    \/ SubstituteCall
    \/ to_string
    \/ CompareCall
    \/ Reparse
    \/ ConstructCall
    \/ Hold
    \/ EvaluateHeldCall
    \/ SimplifyHeld
    \/ SubstituteHeldCall

Spec == Init /\ [][Next]_vars

----------------------------------------------------------------------------
(* Two requests served by the one Parser of APIServer                      *)
(* (api_server.py:34-56): each runs Parser.parse (expression_eval.py:58-72) *)
(* statement by statement on the shared fields tokens and pos.             *)

\* parser.parse(s) run alone on a Parser
parse(s) == parse_finish(tokenize(s), expression(tokenize(s), 0))

\* the request arrives: self.parser.parse(expression) is called
Request(c, s) ==
    /\ threads[c].pc = "idle"
    /\ threads' = [threads EXCEPT ![c] = [pc |-> "line 68", expression |-> s,
                                          result |-> NoResult]]
    /\ UNCHANGED <<tokens, pos>>

\* line 68: self.tokens = self.tokenize(expression)
SetTokens(c) ==
    /\ threads[c].pc = "line 68"
    /\ tokens' = tokenize(threads[c].expression)
    /\ threads' = [threads EXCEPT ![c].pc = "line 69"]
    /\ UNCHANGED pos

\* line 69: self.pos = 0
SetPos(c) ==
    /\ threads[c].pc = "line 69"
    /\ pos' = 0
    /\ threads' = [threads EXCEPT ![c].pc = "line 70"]
    /\ UNCHANGED tokens

\* line 70: result = self.expression(), on the fields as they are now; an
\* exception ends the call
RunExpression(c) ==
    /\ threads[c].pc = "line 70"
    /\ threads' = [threads EXCEPT
                     ![c].result = expression(tokens, pos),
                     ![c].pc = IF expression(tokens, pos).err = "none"
                               THEN "line 71" ELSE "done"]
    /\ pos' = threads'[c].result.pos
    /\ UNCHANGED tokens

\* lines 71-72: if self.pos < len(self.tokens): raise; return result
CheckRest(c) ==
    /\ threads[c].pc = "line 71"
    /\ threads' = [threads EXCEPT
                     ![c].result = parse_finish(tokens, [@ EXCEPT !.pos = pos]),
                     ![c].pc = "done"]
    /\ UNCHANGED <<tokens, pos>>

\* what the requests leave alone
beyondParser ==
    <<pc, text, result, parsed, kwargs, evaluated, simplified, substitutions,
      substituted, rendered, heap, root, out, compareVars, reparsed,
      chainVars, hubVars>>

RequestCall ==
    /\ \E c \in Callers : \E s \in SharedInputs : Request(c, s)
    /\ UNCHANGED beyondParser

SetTokensStep == (\E c \in Callers : SetTokens(c)) /\ UNCHANGED beyondParser

SetPosStep == (\E c \in Callers : SetPos(c)) /\ UNCHANGED beyondParser

RunExpressionStep ==
    (\E c \in Callers : RunExpression(c)) /\ UNCHANGED beyondParser

CheckRestStep == (\E c \in Callers : CheckRest(c)) /\ UNCHANGED beyondParser

NextShared ==
    \/ RequestCall
    \/ SetTokensStep
    \/ SetPosStep
    \/ RunExpressionStep
    \/ CheckRestStep

SpecShared == Init /\ [][NextShared]_vars

----------------------------------------------------------------------------
(* CommunicationHub (src/src/agents/communication.py:59-180): agents maps  *)
(* a registered name to its queue, subscriptions a topic to its list of    *)
(* subscriber names.  content numbers the messages.                        *)

Message(sender, receiver, content, message_type) ==
    [sender |-> sender, receiver |-> receiver, content |-> content,
     message_type |-> message_type]

\* agent_name in subscribers
In(agent_name, subscribers) ==
    \E i \in 1..Len(subscribers) : subscribers[i] = agent_name

\* a list.remove that removes nothing
remove_Nothing(subscribers, agent_name) == subscribers

\* subscribers.remove(agent_name): the first occurrence is removed
RECURSIVE remove(_, _)
remove(subscribers, agent_name) ==
    IF subscribers = <<>> THEN <<>>
    ELSE IF Head(subscribers) = agent_name THEN Tail(subscribers)
    ELSE <<Head(subscribers)>> \o remove(Tail(subscribers), agent_name)

\* for agent_name in names: if agent_name in self.agents: queue.put(message)
RECURSIVE PutEach(_, _, _)
PutEach(queues, names, message) ==
    IF names = <<>> THEN queues
    ELSE PutEach(IF Head(names) \in DOMAIN queues
                 THEN [queues EXCEPT ![Head(names)] = Append(@, message)]
                 ELSE queues,
                 Tail(names), message)

HubCall(name, agent_name, topic) ==
    hubCall' = [name |-> name, agent_name |-> agent_name, topic |-> topic]

register_agent(agent_name) ==
    /\ HubCall("register_agent", agent_name, "")
    /\ IF agent_name \notin DOMAIN agents
       THEN agents' = [a \in DOMAIN agents \cup {agent_name} |->
                         IF a = agent_name THEN <<>> ELSE agents[a]]
       ELSE UNCHANGED agents
    /\ UNCHANGED <<subscriptions, events>>

unregister_agent(agent_name) ==
    /\ HubCall("unregister_agent", agent_name, "")
    /\ IF agent_name \in DOMAIN agents
       THEN /\ agents' = [a \in DOMAIN agents \ {agent_name} |-> agents[a]]
            /\ subscriptions' =
                 [topic \in DOMAIN subscriptions |->
                    IF In(agent_name, subscriptions[topic])
                    THEN remove(subscriptions[topic], agent_name)
                    ELSE subscriptions[topic]]
       ELSE UNCHANGED <<agents, subscriptions>>
    /\ UNCHANGED events

\* a message for one receiver, or for all when receiver is None
send_message(sender, receiver) ==
    /\ events < MaxEvents
    /\ HubCall("send_message", sender, "")
    /\ events' = events + 1
    /\ LET message == Message(sender, receiver, events', "info")
       IN  IF receiver = None
           THEN agents' = [a \in DOMAIN agents |-> Append(agents[a], message)]
           ELSE IF receiver \in DOMAIN agents
           THEN agents' = [agents EXCEPT ![receiver] = Append(@, message)]
           ELSE UNCHANGED agents
    /\ UNCHANGED subscriptions

publish_event(topic, sender) ==
    /\ events < MaxEvents
    /\ HubCall("publish_event", sender, topic)
    /\ events' = events + 1
    /\ IF topic \in DOMAIN subscriptions
       THEN agents' = PutEach(agents, subscriptions[topic],
                              Message(sender, None, events', "event"))
       ELSE UNCHANGED agents
    /\ UNCHANGED subscriptions

subscribe_to_topic(agent_name, topic) ==
    /\ HubCall("subscribe_to_topic", agent_name, topic)
    /\ IF agent_name \notin DOMAIN agents
       THEN UNCHANGED subscriptions
       ELSE LET subscribers == IF topic \in DOMAIN subscriptions
                               THEN subscriptions[topic] ELSE <<>>
            IN  subscriptions' =
                  [t \in DOMAIN subscriptions \cup {topic} |->
                     IF t # topic THEN subscriptions[t]
                     ELSE IF In(agent_name, subscribers) THEN subscribers
                     ELSE Append(subscribers, agent_name)]
    /\ UNCHANGED <<agents, events>>

unsubscribe_from_topic(agent_name, topic) ==
    /\ HubCall("unsubscribe_from_topic", agent_name, topic)
    /\ IF topic \in DOMAIN subscriptions /\ In(agent_name, subscriptions[topic])
       THEN subscriptions' =
              [subscriptions EXCEPT ![topic] = remove(@, agent_name)]
       ELSE UNCHANGED subscriptions
    /\ UNCHANGED <<agents, events>>

\* the queue of the agent is emptied
get_messages(agent_name) ==
    /\ HubCall("get_messages", agent_name, "")
    /\ IF agent_name \in DOMAIN agents
       THEN agents' = [agents EXCEPT ![agent_name] = <<>>]
       ELSE UNCHANGED agents
    /\ UNCHANGED <<subscriptions, events>>

\* what the calls on the hub leave alone
beyondHub == <<engineVars, compareVars, reparsed, chainVars, threads>>

RegisterAgent ==
    (\E a \in AgentNames : register_agent(a)) /\ UNCHANGED beyondHub

UnregisterAgent ==
    (\E a \in AgentNames : unregister_agent(a)) /\ UNCHANGED beyondHub

SendMessage ==
    /\ \E s \in Senders : \E r \in AgentNames \cup {None} : send_message(s, r)
    /\ UNCHANGED beyondHub

PublishEvent ==
    /\ \E t \in Topics : \E s \in Senders : publish_event(t, s)
    /\ UNCHANGED beyondHub

SubscribeToTopic ==
    /\ \E a \in AgentNames : \E t \in Topics : subscribe_to_topic(a, t)
    /\ UNCHANGED beyondHub

UnsubscribeFromTopic ==
    /\ \E a \in AgentNames : \E t \in Topics : unsubscribe_from_topic(a, t)
    /\ UNCHANGED beyondHub

GetMessages ==
    (\E a \in AgentNames : get_messages(a)) /\ UNCHANGED beyondHub

NextHub ==
    \/ RegisterAgent
    \/ UnregisterAgent
    \/ SendMessage
    \/ PublishEvent
    \/ SubscribeToTopic
    \/ UnsubscribeFromTopic
    \/ GetMessages

SpecHub == Init /\ [][NextHub]_vars

----------------------------------------------------------------------------
(* The grammar of the design (spec section 4.2) over token classes, stated *)
(* by derivation and not by a cursor; used to state the claims.            *)

IsNumberToken(t) == t # <<>> /\ t[1] \in Digits

IsIdentifierToken(t) ==
    t # <<>> /\ t[1] \in IdentStart /\ \A i \in 1..Len(t) : t[i] \in IdentPart

Leaf(t) ==
    IF IsNumberToken(t)
    THEN Number(IF Contains(t, ".") THEN ParseFloat(t) ELSE PyInt(ParseInt(t)))
    ELSE Symbol(t)

KindOf(tok) ==
    CASE tok = <<"+">> -> "Add"
      [] tok = <<"-">> -> "Subtract"
      [] tok = <<"*">> -> "Multiply"
      [] tok = <<"/">> -> "Divide"
      [] tok = <<"^">> -> "Power"
      [] OTHER -> "None"

RECURSIVE IsExpressionTree(_, _)
RECURSIVE IsTermTree(_, _)
RECURSIVE IsPowerTree(_, _)
RECURSIVE IsFactorTree(_, _)

\* factor := NUMBER | IDENTIFIER | '(' expression ')'
IsFactorTree(toks, t) ==
    \/ /\ Len(toks) = 1
       /\ IsNumberToken(toks[1]) \/ IsIdentifierToken(toks[1])
       /\ t = Leaf(toks[1])
    \/ /\ Len(toks) >= 3
       /\ toks[1] = <<"(">>
       /\ toks[Len(toks)] = <<")">>
       /\ IsExpressionTree(SubSeq(toks, 2, Len(toks) - 1), t)

\* power := factor ( '^' power )?
IsPowerTree(toks, t) ==
    \/ IsFactorTree(toks, t)
    \/ /\ t.kind = "Power"
       /\ Len(t.args) = 2
       /\ \E k \in 2..(Len(toks) - 1) :
            /\ toks[k] = <<"^">>
            /\ IsFactorTree(SubSeq(toks, 1, k - 1), t.args[1])
            /\ IsPowerTree(SubSeq(toks, k + 1, Len(toks)), t.args[2])

\* term := power ( ('*' | '/') power )*, folded to the left
IsTermTree(toks, t) ==
    \/ IsPowerTree(toks, t)
    \/ /\ t.kind \in {"Multiply", "Divide"}
       /\ Len(t.args) = 2
       /\ \E k \in 2..(Len(toks) - 1) :
            /\ KindOf(toks[k]) = t.kind
            /\ IsPowerTree(SubSeq(toks, k + 1, Len(toks)), t.args[2])
            /\ IsTermTree(SubSeq(toks, 1, k - 1), t.args[1])

\* expression := term ( ('+' | '-') term )*, folded to the left
IsExpressionTree(toks, t) ==
    \/ IsTermTree(toks, t)
    \/ /\ t.kind \in {"Add", "Subtract"}
       /\ Len(t.args) = 2
       /\ \E k \in 2..(Len(toks) - 1) :
            /\ KindOf(toks[k]) = t.kind
            /\ IsTermTree(SubSeq(toks, k + 1, Len(toks)), t.args[2])
            /\ IsExpressionTree(SubSeq(toks, 1, k - 1), t.args[1])

RECURSIVE DerivesExpression(_)
RECURSIVE DerivesTerm(_)
RECURSIVE DerivesPower(_)
RECURSIVE DerivesFactor(_)

DerivesFactor(toks) ==
    \/ Len(toks) = 1 /\ (IsNumberToken(toks[1]) \/ IsIdentifierToken(toks[1]))
    \/ /\ Len(toks) >= 3
       /\ toks[1] = <<"(">>
       /\ toks[Len(toks)] = <<")">>
       /\ DerivesExpression(SubSeq(toks, 2, Len(toks) - 1))

DerivesPower(toks) ==
    \/ DerivesFactor(toks)
    \/ \E k \in 2..(Len(toks) - 1) :
         /\ toks[k] = <<"^">>
         /\ DerivesFactor(SubSeq(toks, 1, k - 1))
         /\ DerivesPower(SubSeq(toks, k + 1, Len(toks)))

DerivesTerm(toks) ==
    \/ DerivesPower(toks)
    \/ \E k \in 2..(Len(toks) - 1) :
         /\ toks[k] \in {<<"*">>, <<"/">>}
         /\ DerivesPower(SubSeq(toks, k + 1, Len(toks)))
         /\ DerivesTerm(SubSeq(toks, 1, k - 1))

DerivesExpression(toks) ==
    \/ DerivesTerm(toks)
    \/ \E k \in 2..(Len(toks) - 1) :
         /\ toks[k] \in {<<"+">>, <<"-">>}
         /\ DerivesTerm(SubSeq(toks, k + 1, Len(toks)))
         /\ DerivesExpression(SubSeq(toks, 1, k - 1))

\* toks is what a derivable expression starts with, up to a point where a
\* factor must follow: toks, one operand and some closing parentheses make a
\* derivable expression, and toks is empty or ends in an operator or '('
ExpectsFactorAtEnd(toks) ==
    /\ toks = <<>> \/ toks[Len(toks)] \in {<<"+">>, <<"-">>, <<"*">>, <<"/">>, <<"^">>, <<"(">>}
    /\ \E k \in 0..Len(toks) :
         DerivesExpression(toks \o <<(<<"x">>)>> \o [i \in 1..k |-> <<")">>])

----------------------------------------------------------------------------
(* Helpers of the claims.                                                  *)

RECURSIVE Symbols(_)
\* the names of the symbols of a tree
Symbols(t) ==
    IF t.kind = "Symbol" THEN {t.name}
    ELSE UNION {Symbols(t.args[i]) : i \in 1..Len(t.args)}

RECURSIVE Kinds(_)
\* the kinds of the nodes of a tree
Kinds(t) == {t.kind} \cup UNION {Kinds(t.args[i]) : i \in 1..Len(t.args)}

RECURSIVE Arithmetic(_, _)
\* the integer a tree of +, -, * over literals and bound symbols denotes
Arithmetic(t, kw) ==
    CASE t.kind = "Number"   -> t.val.num
      [] t.kind = "Symbol"   -> kw[t.name].num
      [] t.kind = "Add"      -> Arithmetic(t.args[1], kw) + Arithmetic(t.args[2], kw)
      [] t.kind = "Subtract" -> Arithmetic(t.args[1], kw) - Arithmetic(t.args[2], kw)
      [] t.kind = "Multiply" -> Arithmetic(t.args[1], kw) * Arithmetic(t.args[2], kw)

Count(toks, S) == Cardinality({i \in 1..Len(toks) : toks[i] \in S})

RECURSIVE Leaves(_)
Leaves(t) ==
    IF t.kind \in {"Number", "Symbol"} THEN 1
    ELSE IF t.args = <<>> THEN 0
    ELSE Leaves(t.args[1]) + Leaves(t.args[2])

RECURSIVE OperatorNodes(_)
OperatorNodes(t) ==
    IF t.kind \in OperatorKinds
    THEN 1 + OperatorNodes(t.args[1]) + OperatorNodes(t.args[2])
    ELSE 0

OperatorTokens == {<<"+">>, <<"-">>, <<"*">>, <<"/">>, <<"^">>}

ParenTokens == {<<"(">>, <<")">>}

Whitespace == {" ", "\t", "\n"}

\* the characters that begin or continue a token
TokenChars == Digits \cup IdentPart \cup OpChars

X == <<"x">>

Y == <<"y">>

\* the example bindings x = 3, y = 4
X3Y4 == [n \in {X, Y} |-> IF n = X THEN PyInt(3) ELSE PyInt(4)]

\* the errors the design names and the code does not raise
LexicalError == "LexicalError"

UnexpectedEndOfInput == "ParseError: unexpected end of input"

----------------------------------------------------------------------------
(* The claims.                                                             *)

\* C1: parsing a string that mixes numeric literals and symbols and evaluating
\* the tree with every symbol bound returns the number ordinary arithmetic
\* gives (stated for +, -, *, where arithmetic is total), and "x + 2 * y"
\* with x = 3, y = 4 gives 11.
C1_MixedExpressionEvaluatesToNumber ==
    pc = "evaluated" =>
      /\ ( /\ "Number" \in Kinds(parsed.tree)
           /\ Symbols(parsed.tree) # {}
           /\ Symbols(parsed.tree) \subseteq DOMAIN kwargs
           /\ \A n \in DOMAIN kwargs : IsIntOrFloat(kwargs[n])
           /\ Kinds(parsed.tree) \subseteq {"Number", "Symbol", "Add", "Subtract", "Multiply"} )
         => /\ evaluated.err = "none"
            /\ evaluated.tree = Number(PyInt(Arithmetic(parsed.tree, kwargs)))
      /\ ( /\ text = <<"x", " ", "+", " ", "2", " ", "*", " ", "y">>
           /\ kwargs = X3Y4 )
         => evaluated = Returned(Number(PyInt(11)))

\* C2: evaluating a symbol-free tree that parse returned, with empty bindings,
\* returns a number (the division-by-zero failure of the design is allowed
\* for here), and "2^3^2" gives 512.
C2_SymbolFreeEvaluatesToNumber ==
    (pc = "evaluated" /\ Symbols(parsed.tree) = {} /\ DOMAIN kwargs = {}) =>
      /\ \/ evaluated.err = "none" /\ evaluated.tree.kind = "Number"
         \/ evaluated.err = ZeroDivisionError
      /\ text = <<"2", "^", "3", "^", "2">>
         => evaluated = Returned(Number(PyInt(512)))

\* the operand is a symbol bound to zero or the literal zero
IsZeroOperand(t, kw) ==
    \/ t.kind = "Number" /\ t.val.num = 0
    \/ /\ t.kind = "Symbol"
       /\ t.name \in DOMAIN kw
       /\ IsIntOrFloat(kw[t.name])
       /\ kw[t.name].num = 0

\* C3: evaluating a Divide node whose right operand is numerically zero fails
\* with the division-by-zero error, whether the left operand is a literal or
\* a bound symbol.
C3_DivideByZeroFails ==
    ( /\ pc = "evaluated"
      /\ parsed.tree.kind = "Divide"
      /\ IsZeroOperand(parsed.tree.args[2], kwargs)
      /\ \/ parsed.tree.args[1].kind = "Number"
         \/ /\ parsed.tree.args[1].kind = "Symbol"
            /\ parsed.tree.args[1].name \in DOMAIN kwargs
            /\ IsIntOrFloat(kwargs[parsed.tree.args[1].name]) )
    => evaluated = Raised(ZeroDivisionError)

\* C4: when parse returns a tree the cursor equals the number of tokens and
\* every token is in the tree (one leaf per number or identifier token, one
\* operator node per operator token); when the top-level expression ends with
\* a token unread, parse raises the unexpected-token error and returns no tree.
C4_ParseConsumesAllTokens ==
    pc = "parsed" =>
      /\ parsed.err = "none" =>
           /\ pos = Len(tokens)
           /\ parsed.tree # NoTree
           /\ Leaves(parsed.tree) = Len(tokens) - Count(tokens, OperatorTokens \cup ParenTokens)
           /\ OperatorNodes(parsed.tree) = Count(tokens, OperatorTokens)
      /\ (result.err = "none" /\ result.pos < Len(tokens)) =>
           /\ parsed.err = UnexpectedToken
           /\ parsed.tree = NoTree

\* C4 witness: the top-level expression ended before the last token and parse
\* raised.
C4_Witness ==
    /\ pc = "parsed"
    /\ result.err = "none"
    /\ result.pos < Len(tokens)
    /\ parsed.err = UnexpectedToken

\* C5: when a factor is expected at the end of the tokens, parse fails with
\* the error "unexpected end of input", and parse never fails with an
\* out-of-range error.
C5_EndOfInputIsParseError ==
    pc = "parsed" =>
      /\ parsed.err # IndexError
      /\ ExpectsFactorAtEnd(tokens) => parsed.err = UnexpectedEndOfInput

HasBadChar(s) ==
    \E i \in 1..Len(s) : s[i] \notin TokenChars \cup Whitespace \cup {"."}

\* C6: for an input with a character that begins no token (and is no decimal
\* point), tokenize does not return and parse fails with the lexical error.
C6_BadCharacterIsLexicalError ==
    /\ pc = "tokenized" => ~HasBadChar(text)
    /\ (pc = "parsed" /\ HasBadChar(text)) => parsed.err = LexicalError

\* the greedy longest-match scan of s from i in which whitespace is passed
\* over between tokens and ends the token before it
RECURSIVE GreedyScan(_, _)
GreedyScan(s, i) ==
    IF i > Len(s) THEN <<>>
    ELSE IF s[i] \in Whitespace THEN GreedyScan(s, i + 1)
    ELSE IF s[i] \in Digits
         THEN LET j == RunEnd(s, i, Digits)
              IN  <<SubSeq(s, i, j - 1)>> \o GreedyScan(s, j)
    ELSE IF s[i] \in IdentStart
         THEN LET j == RunEnd(s, i, IdentPart)
              IN  <<SubSeq(s, i, j - 1)>> \o GreedyScan(s, j)
    ELSE <<(<<s[i]>>)>> \o GreedyScan(s, i + 1)

\* C7: for an input of token characters and whitespace only, tokenize returns
\* the tokens of the greedy scan in which whitespace separates tokens.
C7_WhitespaceSeparatesTokens ==
    ( /\ pc = "tokenized"
      /\ \A i \in 1..Len(text) : text[i] \in TokenChars \cup Whitespace )
    => tokens = GreedyScan(text, 1)

\* C8: for every token sequence the grammar derives, parse returns the tree
\* the grammar defines (left folds for + - and * /, a right fold for ^,
\* a parenthesised expression as one operand).
C8_ParseReturnsGrammarTree ==
    (pc = "parsed" /\ DerivesExpression(tokens)) =>
      /\ parsed.err = "none"
      /\ IsExpressionTree(tokens, parsed.tree)

\* C9: an identifier token is accepted as a factor and parses to the Symbol of
\* that name, and the invalid-token error is raised only for a factor token
\* that is no number, no identifier and no '('.
C9_IdentifierParsesToSymbol ==
    pc = "parsed" =>
      /\ (Len(tokens) = 1 /\ IsIdentifierToken(tokens[1])) =>
           parsed = Return(Symbol(tokens[1]), 1)
      /\ parsed.err = InvalidToken =>
           /\ ~IsNumberToken(tokens[pos])
           /\ ~IsIdentifierToken(tokens[pos])
           /\ tokens[pos] # <<"(">>

\* C10: at every '(' of the tokens, once the enclosed expression is parsed,
\* factor raises the mismatched-parentheses error when the tokens end or
\* another token than ')' stands there, and otherwise consumes that one ')'
\* and returns the enclosed expression; so a parse that fails with that error
\* stopped behind an expression that follows a '(', at a token that is no ')',
\* and a parse that returns a tree read as many ')' as '('.
C10_ParenthesisedFactor ==
    pc = "parsed" =>
      /\ \A p \in 0..(Len(tokens) - 1) :
           tokens[p + 1] = <<"(">> =>
             LET e == expression(tokens, p + 1)
                 f == factor(tokens, p)
             IN  e.err = "none" =>
                   IF e.pos < Len(tokens) /\ tokens[e.pos + 1] = <<")">>
                   THEN f = Return(e.tree, e.pos + 1)
                   ELSE f = Raise(MismatchedParentheses, e.pos)
      /\ parsed.err = MismatchedParentheses =>
           /\ pos = Len(tokens) \/ tokens[pos + 1] # <<")">>
           /\ \E i \in 1..pos :
                /\ tokens[i] = <<"(">>
                /\ expression(tokens, i) = Return(expression(tokens, i).tree, pos)
      /\ parsed.err = "none" =>
           Count(tokens, {<<"(">>}) = Count(tokens, {<<")">>})

\* C10 witness: the enclosed expression is parsed and a token that is no ')'
\* stands behind it.
C10_Witness ==
    /\ pc = "parsed"
    /\ parsed.err = MismatchedParentheses
    /\ pos < Len(tokens)
    /\ tokens[1] = <<"(">>

\* C11: evaluating a tree that is one Symbol s, whatever identifier s is:
\* when s is bound to a number the bound number is returned, when s is bound
\* to a value that is no number the binding-type error is raised, and when s
\* is not bound the symbol is returned unchanged.
C11_SymbolEvaluate ==
    (pc = "evaluated" /\ parsed.tree.kind = "Symbol") =>
      LET s == parsed.tree.name IN
      IF s \notin DOMAIN kwargs THEN evaluated = Returned(parsed.tree)
      ELSE IF IsIntOrFloat(kwargs[s]) THEN evaluated = Returned(Number(kwargs[s]))
      ELSE evaluated = Raised(BindingValueError)

RECURSIVE EvaluatedForm(_, _)
\* the evaluated form of a tree under numeric bindings as the design states
\* it: a literal is its own evaluated form, a bound symbol its number, an
\* unbound symbol itself, an operator node its numeric result when every
\* operand's evaluated form is a number and else the same kind of node over
\* the operands' evaluated forms
EvaluatedForm(t, kw) ==
    CASE t.kind = "Number" -> Returned(t)
      [] t.kind = "Symbol" ->
           IF t.name \in DOMAIN kw THEN Returned(Number(kw[t.name])) ELSE Returned(t)
      [] OTHER ->
           LET forms == [i \in 1..Len(t.args) |-> EvaluatedForm(t.args[i], kw)] IN
           IF \E i \in 1..Len(forms) : forms[i].err # "none"
           THEN forms[CHOOSE i \in 1..Len(forms) : forms[i].err # "none"]
           ELSE IF \A i \in 1..Len(forms) : forms[i].tree.kind = "Number"
                THEN LET r == op(t.kind, [i \in 1..Len(forms) |-> forms[i].tree.val])
                     IN  IF r.err # "none" THEN Raised(r.err)
                         ELSE Returned(Number(r.val))
                ELSE Returned(Operator(t.kind, [i \in 1..Len(forms) |-> forms[i].tree]))

\* C12: evaluating an operator node under numeric bindings evaluates every
\* operand, literal operands included: when every operand evaluates to a
\* number the operator's numeric result is returned, and otherwise a node of
\* the same kind and operand count over the operands' evaluated forms.
C12_OperatorEvaluate ==
    ( /\ pc = "evaluated"
      /\ parsed.tree.kind \in OperatorKinds
      /\ \A n \in DOMAIN kwargs : IsIntOrFloat(kwargs[n]) )
    => LET want == EvaluatedForm(parsed.tree, kwargs)
       IN  want.err = "none" =>
             /\ evaluated = want
             /\ evaluated.tree.kind # "Number" =>
                   /\ evaluated.tree.kind = parsed.tree.kind
                   /\ Len(evaluated.tree.args) = Len(parsed.tree.args)

\* C13: evaluate, simplify and substitute never change the tree they are
\* given: every object that exists when a call is made has the same class,
\* name and operands list after it, whether the call returns or raises, and
\* the tree parse returned still reads the same from its root.
C13_InputTreeUnchanged ==
    [][ /\ \A i \in DOMAIN heap : i \in DOMAIN heap' /\ heap'[i] = heap[i]
        /\ (pc = "parsed" /\ parsed.err = "none") => Deref(heap', root) = parsed.tree
      ]_vars

\* C13 witness: evaluate built a new node for one operand and then raised at
\* the next.
C13_Witness ==
    /\ pc = "evaluated"
    /\ out.err = AttributeError
    /\ Len(heap) > Len(Load(PoolLoaded.heap, parsed.tree).heap)

\* the numeric literal n
IsLiteral(t, n) == t.kind = "Number" /\ t.val.num = n * t.val.den

\* the design's rule for Add over simplified operands: drop the zeros
AddRule(ops) ==
    LET kept == SelectSeq(ops, LAMBDA a : ~IsLiteral(a, 0)) IN
    IF kept = <<>> THEN Number(PyInt(0))
    ELSE IF Len(kept) = 1 THEN kept[1]
    ELSE Operator("Add", kept)

\* the design's rule for Multiply: a zero operand gives 0, else drop the ones
MultiplyRule(ops) ==
    LET kept == SelectSeq(ops, LAMBDA a : ~IsLiteral(a, 1)) IN
    IF \E i \in 1..Len(ops) : IsLiteral(ops[i], 0) THEN Number(PyInt(0))
    ELSE IF kept = <<>> THEN Number(PyInt(1))
    ELSE IF Len(kept) = 1 THEN kept[1]
    ELSE Operator("Multiply", kept)

\* the design's rule for Power: the tests in the order exponent 1,
\* exponent 0, base 1
PowerRule(ops) ==
    IF IsLiteral(ops[2], 1) THEN ops[1]
    ELSE IF IsLiteral(ops[2], 0) THEN Number(PyInt(1))
    ELSE IF IsLiteral(ops[1], 1) THEN Number(PyInt(1))
    ELSE Operator("Power", ops)

RECURSIVE SimplifiedForm(_)
\* the simplified form of a tree as the design states it: a literal and a
\* symbol are their own simplified forms, an operator node follows the rule
\* of its kind over the simplified forms of its operands
SimplifiedForm(t) ==
    IF t.kind \notin OperatorKinds THEN t
    ELSE LET ops == [i \in 1..Len(t.args) |-> SimplifiedForm(t.args[i])] IN
         CASE t.kind = "Add"      -> AddRule(ops)
           [] t.kind = "Multiply" -> MultiplyRule(ops)
           [] t.kind = "Power"    -> PowerRule(ops)
           [] OTHER               -> Operator(t.kind, ops)

SimplifiedOperands(t) == [i \in 1..Len(t.args) |-> SimplifiedForm(t.args[i])]

\* C14: simplify of an Add node simplifies every operand and drops each
\* operand that is the literal 0: with none left the result is the literal 0,
\* with one left that operand itself, else a new Add over the ones left, in
\* order; and the simplified "0 + x" renders as "x".
C14_SimplifyAdd ==
    (pc = "simplified" /\ parsed.tree.kind = "Add") =>
      /\ simplified = Returned(AddRule(SimplifiedOperands(parsed.tree)))
      /\ text = <<"0", " ", "+", " ", "x">> =>
           (simplified.err = "none" /\ Str(simplified.tree) = <<"x">>)

\* C15: simplify of a Multiply node simplifies every operand; a literal 0
\* among them gives the literal 0; else each literal 1 is dropped: with none
\* left the result is the literal 1, with one left that operand itself, else
\* a new Multiply over the ones left; and the simplified "x * 1" renders
\* as "x".
C15_SimplifyMultiply ==
    (pc = "simplified" /\ parsed.tree.kind = "Multiply") =>
      /\ simplified = Returned(MultiplyRule(SimplifiedOperands(parsed.tree)))
      /\ text = <<"x", " ", "*", " ", "1">> =>
           (simplified.err = "none" /\ Str(simplified.tree) = <<"x">>)

\* C16: simplify of a Power node simplifies base and exponent: a literal
\* exponent 1 gives the base, else a literal exponent 0 gives the literal 1,
\* else a literal base 1 gives the literal 1, else a new Power over the two.
C16_SimplifyPower ==
    (pc = "simplified" /\ parsed.tree.kind = "Power") =>
      /\ simplified = Returned(PowerRule(SimplifiedOperands(parsed.tree)))
      /\ text = <<"x", "^", "1">> => simplified = Returned(Symbol(<<"x">>))
      /\ text = <<"x", "^", "0">> => simplified = Returned(Number(PyInt(1)))

\* C17: simplify of a Subtract or Divide node always returns a node of the
\* same kind with exactly two operands, the simplified left and right
\* operands, whatever their values: "x - 0", "0/x" and "x/1" are not reduced.
C17_SimplifySubtractDivide ==
    (pc = "simplified" /\ parsed.tree.kind \in {"Subtract", "Divide"}) =>
      /\ simplified.err = "none"
      /\ simplified.tree.kind = parsed.tree.kind
      /\ simplified.tree.args = SimplifiedOperands(parsed.tree)
      /\ Len(simplified.tree.args) = 2
      /\ text = <<"x", " ", "-", " ", "0">> =>
           simplified.tree = Subtract(Symbol(<<"x">>), Number(PyInt(0)))

\* C18: one pass of simplify is enough: simplify returns for every tree, and
\* simplify of its result returns too, with the same rendering.
C18_SimplifyOnce ==
    pc = "simplified" =>
      /\ simplified.err = "none"
      /\ LET again == simplify(simplified.tree)
         IN  /\ again.err = "none"
             /\ Str(again.tree) = Str(simplified.tree)

RECURSIVE IsSubstitution(_, _, _)
\* r is t with every symbol that is a key of subs replaced by its value:
\* the same kinds of operator nodes over as many operands in the same order
IsSubstitution(t, subs, r) ==
    CASE t.kind = "Symbol" -> r = (IF t.name \in DOMAIN subs THEN subs[t.name] ELSE t)
      [] t.kind = "Number" -> r = t
      [] OTHER ->
           /\ r.kind = t.kind
           /\ Len(r.args) = Len(t.args)
           /\ \A i \in 1..Len(t.args) : IsSubstitution(t.args[i], subs, r.args[i])

XtoZ == [n \in {X} |-> Symbol(Z)]

\* C19: substitute returns the tree in which every Symbol whose name is a key
\* of the map is replaced by the mapped value, every other Symbol and every
\* literal is as it was, and every operator node is rebuilt with its kind,
\* operand count and operand order, at every depth; the substituted "x + y"
\* under x -> Symbol z renders as "z + y".
C19_Substitute ==
    /\ pc \in {"substituted", "substituted, rendered"} =>
         IsSubstitution(parsed.tree, substitutions, substituted)
    /\ ( /\ pc = "substituted, rendered"
         /\ text = <<"x", " ", "+", " ", "y">>
         /\ substitutions = XtoZ )
       => rendered = <<"z", " ", "+", " ", "y">>

\* C19 witness: x is replaced at two depths of "(x+y)*x-y", y is left.
C19_Witness ==
    /\ pc = "substituted, rendered"
    /\ text = <<"(", "x", "+", "y", ")", "*", "x", "-", "y">>
    /\ substitutions = XtoZ
    /\ substituted =
         Subtract(Multiply(Add(Symbol(Z), Symbol(Y)), Symbol(Z)), Symbol(Y))
    /\ rendered = <<"(", "(", "z", " ", "+", " ", "y", ")", " ", "*", " ", "z", ")",
                    " ", "-", " ", "(", "y", ")">>

\* the tree to_string was called on
Rendered == IF pc = "rendered" THEN parsed.tree ELSE substituted

\* an operand in parentheses exactly when it is an operator node
Operand(t) ==
    IF t.kind \in OperatorKinds THEN <<"(">> \o Str(t) \o <<")">> ELSE Str(t)

\* the operands args[1..n] with sep between neighbours
RECURSIVE Joined(_, _, _)
Joined(args, n, sep) ==
    IF n = 1 THEN Operand(args[1])
    ELSE Joined(args, n - 1, sep) \o sep \o Operand(args[n])

InParentheses(t) == <<"(">> \o Str(t) \o <<")">>

\* C20: an Add or Multiply node renders as its operands joined by " + " or
\* " * ", an operand in parentheses exactly when it is an operator node; a
\* Subtract, Divide or Power node renders both operands in parentheses around
\* " - ", " / " or "^"; a Symbol renders as its name; so "x*2+y" renders as
\* "(x * 2) + y" and "x-2" as "(x) - (2)".
C20_Rendering ==
    pc \in {"rendered", "substituted, rendered"} =>
      LET t == Rendered IN
      /\ t.kind = "Symbol" => rendered = t.name
      /\ t.kind = "Add" => rendered = Joined(t.args, Len(t.args), <<" ", "+", " ">>)
      /\ t.kind = "Multiply" => rendered = Joined(t.args, Len(t.args), <<" ", "*", " ">>)
      /\ t.kind = "Subtract" =>
           rendered = InParentheses(t.args[1]) \o <<" ", "-", " ">> \o InParentheses(t.args[2])
      /\ t.kind = "Divide" =>
           rendered = InParentheses(t.args[1]) \o <<" ", "/", " ">> \o InParentheses(t.args[2])
      /\ t.kind = "Power" =>
           rendered = InParentheses(t.args[1]) \o <<"^">> \o InParentheses(t.args[2])
      /\ (pc = "rendered" /\ text = <<"x", "*", "2", "+", "y">>) =>
           rendered = <<"(", "x", " ", "*", " ", "2", ")", " ", "+", " ", "y">>
      /\ (pc = "rendered" /\ text = <<"x", "-", "2">>) =>
           rendered = <<"(", "x", ")", " ", "-", " ", "(", "2", ")">>

\* C20 witness: Add(Multiply(x, 2), y) is rendered, the operator operand in
\* parentheses and the symbol operand bare.
C20_Witness ==
    /\ pc = "rendered"
    /\ parsed.tree = Add(Multiply(Symbol(X), Number(PyInt(2))), Symbol(Y))
    /\ rendered = <<"(", "x", " ", "*", " ", "2", ")", " ", "+", " ", "y">>

----------------------------------------------------------------------------
(* C21: two expressions compare equal exactly when their renderings are    *)
(* the same string, and equal expressions have equal hashes; x + y differs *)
(* from y + x, and the literal rendered "1" differs from the one rendered  *)
(* "1.0".                                                                  *)

C21_Equality ==
    pc = "compared" =>
        /\ compared.eq <=> (Str(parsed.tree) = Str(other))
        /\ compared.eq => compared.hashes[1] = compared.hashes[2]
        /\ (text = <<"x", " ", "+", " ", "y">>
              /\ other = Add(Symbol(<<"y">>), Symbol(<<"x">>))) => ~compared.eq
        /\ (text = <<"1">> /\ other = Number(PyFloat(1, 1))) => ~compared.eq

----------------------------------------------------------------------------
(* C22: the rendering of a parsed tree is accepted by parse, and the tree  *)
(* parsed from it evaluates to the same result as the first tree under     *)
(* every binding.                                                          *)

C22_RoundTrip ==
    pc = "reparsed" =>
        /\ reparsed.err = "none"
        /\ \A kw \in Bindings :
             EvaluatorEvaluate(reparsed.tree, kw) = EvaluatorEvaluate(parsed.tree, kw)

----------------------------------------------------------------------------
(* C23: every operator node of every tree made by the parser, by direct    *)
(* construction or by a sequence of evaluate, simplify and substitute      *)
(* calls has at least one operand, and a Subtract, Divide or Power node    *)
(* exactly two; a construction with other operand counts fails.            *)

RECURSIVE HasArity(_)
HasArity(t) ==
    /\ t.kind \in OperatorKinds =>
         /\ Len(t.args) >= 1
         /\ t.kind \in {"Subtract", "Divide", "Power"} => Len(t.args) = 2
    /\ \A i \in 1..Len(t.args) : HasArity(t.args[i])

C23_Arity ==
    /\ HasArity(parsed.tree) /\ HasArity(evaluated.tree)
    /\ HasArity(simplified.tree) /\ HasArity(substituted)
    /\ HasArity(reparsed.tree) /\ HasArity(held) /\ HasArity(made.tree)
    /\ call.name = "construct" =>
         LET kind == call.arg[1]
             n    == Len(call.arg[2])
         IN  (n = 0 \/ (kind \in {"Subtract", "Divide", "Power"} /\ n # 2))
                 => made.err # "none"

\* a chain of two calls on a directly constructed Subtract node, the last an
\* evaluate that returned a residual tree
C23_Witness ==
    /\ pc = "held" /\ calls = 2 /\ parsed.err # "none"
    /\ call.name = "evaluate" /\ held # call.input
    /\ held.kind = "Subtract" /\ Len(held.args) = 2

----------------------------------------------------------------------------
(* C24: when two callers run parse on the same Parser with their steps     *)
(* interleaved in any order, each call returns the tree or the error it    *)
(* returns when run alone.                                                 *)

C24_SharedParser ==
    \A c \in Callers :
        threads[c].pc = "done" =>
            /\ threads[c].result.err = parse(threads[c].expression).err
            /\ threads[c].result.tree = parse(threads[c].expression).tree

----------------------------------------------------------------------------
(* C25: parse terminates: from every position of the token list each       *)
(* grammar method that returns has advanced the cursor by at least one     *)
(* token, so every loop iteration and every recursive call consumes a      *)
(* token; the cursor never moves backward and never exceeds the number of  *)
(* tokens.                                                                 *)

\* the cursor after a grammar method entered at p
Advanced(r, p) ==
    /\ p <= r.pos
    /\ r.pos <= Len(tokens)
    /\ r.err = "none" => p + 1 <= r.pos

C25_CursorAdvances ==
    pc = "parsed" =>
        /\ 0 <= pos /\ pos <= Len(tokens)
        /\ result.pos <= pos
        /\ \A p \in 0..Len(tokens) :
             /\ Advanced(factor(tokens, p), p)
             /\ Advanced(power(tokens, p), p)
             /\ Advanced(term(tokens, p), p)
             /\ Advanced(expression(tokens, p), p)

\* a parse with loop iterations and nested calls read all nine tokens
C25_Witness ==
    /\ pc = "parsed"
    /\ parsed.err = "none"
    /\ Len(tokens) = 9
    /\ pos = 9

----------------------------------------------------------------------------
(* C26: evaluate of a Power node whose real result is undefined (base 0    *)
(* with a negative exponent, negative base with a fractional exponent)     *)
(* fails, and not with the division-by-zero error; it never returns a      *)
(* non-real value.                                                         *)

\* base ** exponent has no real value
IsUndefinedPower(base, exponent) ==
    \/ base.num = 0 /\ exponent.num < 0
    \/ base.num < 0 /\ exponent.den # 1

C26_PowerDomain ==
    (/\ pc = "evaluated"
     /\ parsed.tree.kind = "Power"
     /\ \A i \in 1..2 : /\ parsed.tree.args[i].kind = "Symbol"
                        /\ parsed.tree.args[i].name \in DOMAIN kwargs
     /\ DOMAIN kwargs \cap ParameterNames = {}
     /\ \A n \in DOMAIN kwargs : IsIntOrFloat(kwargs[n])
     /\ IsUndefinedPower(kwargs[parsed.tree.args[1].name],
                         kwargs[parsed.tree.args[2].name]))
        => /\ evaluated.err # "none"
           /\ evaluated.err # ZeroDivisionError

----------------------------------------------------------------------------
(* C27: simplify preserves the value: under every binding for which        *)
(* evaluate of the expression returns a number, simplify returns and       *)
(* evaluate of the simplified expression returns the same number.          *)

IsNumberReturned(outcome) == outcome.err = "none" /\ outcome.tree.kind = "Number"

C27_SimplifyPreservesValue ==
    call.name = "simplify" =>
        \A kw \in ChainBindings \cup PowerBindings :
            IsNumberReturned(EvaluatorEvaluate(call.input, kw)) =>
                /\ made.err = "none"
                /\ EvaluatorEvaluate(made.tree, kw) = EvaluatorEvaluate(call.input, kw)

\* simplify changed a tree that evaluates to a number
C27_Witness ==
    /\ pc = "held"
    /\ call.name = "simplify"
    /\ held # call.input
    /\ \E kw \in ChainBindings : IsNumberReturned(EvaluatorEvaluate(call.input, kw))

----------------------------------------------------------------------------
(* C28: staged evaluation: when evaluate under bindings b1 returns a       *)
(* residual tree, evaluate of that residual under bindings b2 of other     *)
(* names succeeds and gives what evaluate gives under b1 and b2 together.  *)

\* the bindings of b1 and b2 together, for disjoint names
Together(b1, b2) ==
    [n \in DOMAIN b1 \cup DOMAIN b2 |-> IF n \in DOMAIN b1 THEN b1[n] ELSE b2[n]]

C28_StagedEvaluation ==
    (/\ call.name = "evaluate"
     /\ made.err = "none"
     /\ made.tree.kind # "Number")
        => \A b2 \in ChainBindings :
               DOMAIN b2 \cap DOMAIN call.arg = {} =>
                   /\ EvaluatorEvaluate(made.tree, b2).err = "none"
                   /\ EvaluatorEvaluate(made.tree, b2)
                        = EvaluatorEvaluate(call.input, Together(call.arg, b2))

----------------------------------------------------------------------------
(* C29: substitute is simultaneous and single-pass: an inserted            *)
(* replacement is not searched for keys, so the symbols of the result are  *)
(* those of the inserted replacements and the symbols that were no key;    *)
(* x + y under {x: Symbol y, y: Symbol x} renders "y + x"; a replacement   *)
(* that contains its own key is inserted once.                             *)

RECURSIVE Occurrences(_, _)
RECURSIVE OccurrencesIn(_, _)

\* how often the symbol n occurs in the trees of a list
OccurrencesIn(trees, n) ==
    IF trees = <<>> THEN 0
    ELSE Occurrences(Head(trees), n) + OccurrencesIn(Tail(trees), n)

\* how often the symbol n occurs in a tree
Occurrences(t, n) ==
    IF t.kind = "Symbol" THEN (IF t.name = n THEN 1 ELSE 0)
    ELSE OccurrencesIn(t.args, n)

RECURSIVE Inserted(_, _, _, _)
\* how often n occurs in the replacements inserted for the keys in `keys`
Inserted(t, subs, keys, n) ==
    IF keys = {} THEN 0
    ELSE LET k == CHOOSE k \in keys : TRUE
         IN  Occurrences(t, k) * Occurrences(subs[k], n)
               + Inserted(t, subs, keys \ {k}, n)

Swap ==
    [n \in {<<"x">>, <<"y">>} |->
        IF n = <<"x">> THEN Symbol(<<"y">>) ELSE Symbol(<<"x">>)]

\* x -> y, and y -> y + 1, which contains its key
YtoYPlus1 ==
    [n \in {<<"x">>, <<"y">>} |->
        IF n = <<"x">> THEN Symbol(<<"y">>)
        ELSE Add(Symbol(<<"y">>), Number(PyInt(1)))]

C29_SinglePass ==
    /\ pc \in {"substituted", "substituted, rendered"} =>
         \A n \in Symbols(parsed.tree) \cup Symbols(substituted) :
             Occurrences(substituted, n)
               = Inserted(parsed.tree, substitutions, DOMAIN substitutions, n)
                 + (IF n \in DOMAIN substitutions THEN 0
                    ELSE Occurrences(parsed.tree, n))
    /\ (pc = "substituted, rendered" /\ text = <<"x", " ", "+", " ", "y">>
          /\ substitutions = Swap)
         => rendered = <<"y", " ", "+", " ", "x">>

\* x + y with x -> y and y -> y + 1 gave y + (y + 1)
C29_Witness ==
    /\ pc = "substituted, rendered"
    /\ text = <<"x", " ", "+", " ", "y">>
    /\ substitutions = YtoYPlus1
    /\ rendered = <<"y", " ", "+", " ", "(", "y", " ", "+", " ", "1", ")">>

----------------------------------------------------------------------------
(* C30: after any sequence of register, unregister, subscribe and          *)
(* unsubscribe calls every name in every topic's subscriber list is a      *)
(* registered agent and appears once; publish_event puts the event on the  *)
(* queues of exactly the topic's subscribers, once each; and an agent that *)
(* registers has no subscription, so it receives no event until it         *)
(* subscribes.                                                             *)

SubscribersRegisteredOnce ==
    \A topic \in DOMAIN subscriptions :
        \A i \in 1..Len(subscriptions[topic]) :
            /\ subscriptions[topic][i] \in DOMAIN agents
            /\ \A j \in 1..Len(subscriptions[topic]) :
                 subscriptions[topic][j] = subscriptions[topic][i] => j = i

PublishedToSubscribers ==
    hubCall'.name = "publish_event" =>
        /\ DOMAIN agents' = DOMAIN agents
        /\ \A a \in DOMAIN agents :
             agents'[a] =
                 IF /\ hubCall'.topic \in DOMAIN subscriptions
                    /\ In(a, subscriptions[hubCall'.topic])
                 THEN Append(agents[a],
                             Message(hubCall'.agent_name, None, events', "event"))
                 ELSE agents[a]

RegisteredWithoutSubscription ==
    (hubCall'.name = "register_agent" /\ hubCall'.agent_name \notin DOMAIN agents)
        => /\ agents'[hubCall'.agent_name] = <<>>
           /\ \A topic \in DOMAIN subscriptions' :
                ~In(hubCall'.agent_name, subscriptions'[topic])

C30_Subscriptions ==
    /\ []SubscribersRegisteredOnce
    /\ [][PublishedToSubscribers /\ RegisteredWithoutSubscription]_vars

\* an event was published on a topic with a subscriber, while a registered
\* agent that is no subscriber of it got nothing
C30_Witness ==
    /\ hubCall.name = "publish_event"
    /\ hubCall.topic \in DOMAIN subscriptions
    /\ \E a, b \in DOMAIN agents :
         /\ In(b, subscriptions[hubCall.topic])
         /\ ~In(a, subscriptions[hubCall.topic])
         /\ Len(agents[b]) = 1 /\ agents[b][1].content = events
         /\ agents[a] = <<>>

====
